---- MODULE Spec2Model ----
(***************************************************************************)
(* Resilience layer of the assistant backend: the circuit breaker of       *)
(* core/circuit_breaker.py, the rate limiter of core/rate_limiter.py, the  *)
(* retry loops of services/gemini_service.py and proxy/main.py, and the    *)
(* background scheduler loops of the services.                             *)
(*                                                                         *)
(* Nine specifications share the module:                                   *)
(*   Spec       one CircuitBreaker called by concurrent tasks              *)
(*   SpecRL     one RateLimiter called by concurrent tasks                 *)
(*   SpecGem    GeminiService.analyze_*: limiter, breaker, retry loop      *)
(*   SpecRetry  the retry loops of the Gemini client and the webhook proxy *)
(*   SpecReg    CircuitBreakerManager used by concurrent tasks             *)
(*   SpecStats  Spec with get_stats queries between the tasks' steps       *)
(*   SpecSync   Spec with calls that pass a plain function                 *)
(*   SpecWait   RateLimiter.wait_for_slot beside other callers             *)
(*   SpecSched  the background scheduler loops                             *)
(* Time is the value time.time() returns, in whole seconds.                *)
(***************************************************************************)
EXTENDS Integers, Sequences, FiniteSets, TLC

\* ---------------------------------------------------------------- bounds
MaxTime == 4        \* the clock stops advancing here
MaxCalls == 4       \* calls started on the breaker
MaxThreshold == 2   \* failure_threshold and success_threshold range over 1..MaxThreshold
MaxRecovery == 2    \* recovery_timeout ranges over 1..MaxRecovery
MaxSkew == 1        \* seconds the clock may advance between two reads inside one call
MaxRequests == 2    \* the limiter's max_requests ranges over 1..MaxRequests
MaxWindow == 2      \* the limiter's time_window ranges over 1..MaxWindow
MaxTimeGem == 30    \* the clock stops advancing here in SpecGem
MaxLogical == 2     \* analyze_text calls made in SpecGem
GemQuantum == 15    \* seconds the clock advances in SpecGem when no timer is nearer
MaxRegCalls == 1    \* calls made through each breaker of the registry
MaxWait == 3        \* wait_for_slot's max_wait ranges over 0..MaxWait
MaxFailures == 2    \* iterations of one scheduler loop whose work raises

Tasks == {1, 2}

\* CircuitState (circuit_breaker.py:20-24)
CLOSED == "closed"
OPEN == "open"
HALF_OPEN == "half_open"

VARIABLES
    cb,         \* the CircuitBreaker instance: its fields, config included
    now,        \* the clock: what time.time() returns
    pc,         \* per task: "idle", or "running" while its operation is awaited
    outcome,    \* how the most recent call ended (return value or exception raised)
    streak,     \* history: counted failures recorded since the last success or closing
    hoSucc,     \* history: successes recorded since the breaker last became HALF_OPEN
    rl,         \* the RateLimiter instance: max_requests, time_window, requests, _lock
    rpc,        \* per task, inside acquire: "idle", "waiting", "locked", "purged"
    local,      \* per task: acquire's local now, and requests before and after its purge
    result,     \* per task: what its last acquire returned
    admitted,   \* history: the time of every acquire that returned True, in order
    everDenied, \* history: some acquire has returned False
    gpc,        \* per task, inside analyze_text: "idle", "http" (request sent), "sleep" (backoff)
    attempt,    \* per task: the retry loop's attempt
    started,    \* per task: when the breaker started awaiting the retry loop
    timer,      \* per task: when the request was sent ("http") or the sleep ends ("sleep")
    gres,       \* per task: how its last analyze_text ended
    sent,       \* history, per task: requests sent by its current or last retry loop
    logical,    \* history: analyze_text calls made
    wire,       \* history: HTTP requests sent to the Gemini API, retries included
    hist,       \* history: the calls started on the breaker and how they ended, counted
    loop,       \* the retry loop being run: its client, position, attempt and last_exception
    tried,      \* history: what each attempt of the current or last retry loop ended in
    slept,      \* history: the delays the current or last retry loop has slept
    ret,        \* what the last retry loop returned or raised
    breakers,   \* CircuitBreakerManager.breakers: name -> instance
    heap,       \* every CircuitBreaker ever constructed by the manager; an instance is its index
    ref,        \* per task: the instance its last get_breaker returned (0: none)
    stats,      \* what the last get_all_stats returned
    lookedUp,   \* history: the names get_breaker has been called with
    wait,       \* the wait_for_slot call being made: position, start_time, max_wait, history
    sched       \* per background scheduler: position in its loop, the sleep in progress, history

cbstate == <<cb, pc, outcome, streak, hoSucc, hist>>
rlstate == <<rl, rpc, local, result, admitted, everDenied>>
gemstate == <<gpc, attempt, started, timer, gres, sent, logical, wire>>
retrystate == <<loop, tried, slept, ret>>
regstate == <<breakers, heap, ref, stats, lookedUp>>
loopstate == <<wait, sched>>
vars == <<now, cbstate, rlstate, gemstate, retrystate, regstate, loopstate>>

\* CircuitBreakerConfig; expected_exception decides which exceptions count, and
\* the outcome of each operation is an input of the model.
CircuitBreakerConfig(ft, rt, to, st) ==
    [ failure_threshold |-> ft, recovery_timeout |-> rt, timeout |-> to,
      success_threshold |-> st ]

Configs ==
    { CircuitBreakerConfig(ft, rt, 30, st) :
        ft \in 1..MaxThreshold, rt \in 1..MaxRecovery, st \in 1..MaxThreshold }

\* CircuitBreaker.__init__
CircuitBreaker(name, config) ==
    [ name |-> name, config |-> config, state |-> CLOSED,
      failure_count |-> 0, success_count |-> 0, last_failure_time |-> 0,
      call_count |-> 0, success_total |-> 0, failure_total |-> 0 ]

\* _on_success with the closing step forgetting to clear the failure streak.
on_success_keeps_streak(b) ==
    LET b1 == [b EXCEPT !.success_total = @ + 1] IN
    IF b1.state = HALF_OPEN
    THEN LET b2 == [b1 EXCEPT !.success_count = @ + 1] IN
         IF b2.success_count >= b2.config.success_threshold
         THEN [b2 EXCEPT !.state = CLOSED]
         ELSE b2
    ELSE IF b1.state = CLOSED
    THEN [b1 EXCEPT !.failure_count = 0]
    ELSE b1

\* _on_success counting probe successes whenever the breaker is not CLOSED.
on_success_any_state(b) ==
    LET b1 == [b EXCEPT !.success_total = @ + 1] IN
    IF b1.state # CLOSED
    THEN LET b2 == [b1 EXCEPT !.success_count = @ + 1] IN
         IF b2.success_count >= b2.config.success_threshold
         THEN [b2 EXCEPT !.state = CLOSED, !.failure_count = 0]
         ELSE b2
    ELSE [b1 EXCEPT !.failure_count = 0]

\* _on_success dropping the success of a call that ends while the breaker is OPEN.
on_success_lost_when_open(b) ==
    IF b.state = OPEN
    THEN b
    ELSE LET b1 == [b EXCEPT !.success_total = @ + 1] IN
         IF b1.state = HALF_OPEN
         THEN LET b2 == [b1 EXCEPT !.success_count = @ + 1] IN
              IF b2.success_count >= b2.config.success_threshold
              THEN [b2 EXCEPT !.state = CLOSED, !.failure_count = 0]
              ELSE b2
         ELSE [b1 EXCEPT !.failure_count = 0]

\* _on_success leaving the half-open streak alone (no episode is told apart, so
\* this drops every success recorded while HALF_OPEN).
on_success_skips_half_open(b) ==
    LET b1 == [b EXCEPT !.success_total = @ + 1] IN
    IF b1.state = CLOSED
    THEN [b1 EXCEPT !.failure_count = 0]
    ELSE b1

\* CircuitBreaker._on_success
on_success(b) ==
    LET b1 == [b EXCEPT !.success_total = @ + 1] IN
    IF b1.state = HALF_OPEN
    THEN LET b2 == [b1 EXCEPT !.success_count = @ + 1] IN
         IF b2.success_count >= b2.config.success_threshold
         THEN [b2 EXCEPT !.state = CLOSED, !.failure_count = 0]
         ELSE b2
    ELSE IF b1.state = CLOSED
    THEN [b1 EXCEPT !.failure_count = 0]
    ELSE b1

\* _on_failure opening one failure late (> for >=).
on_failure_late(b, time) ==
    LET b1 == [b EXCEPT !.failure_total = @ + 1,
                        !.failure_count = @ + 1,
                        !.last_failure_time = time] IN
    IF b1.state = CLOSED
    THEN IF b1.failure_count > b1.config.failure_threshold
         THEN [b1 EXCEPT !.state = OPEN]
         ELSE b1
    ELSE IF b1.state = HALF_OPEN
    THEN [b1 EXCEPT !.state = OPEN]
    ELSE b1

\* _on_failure leaving last_failure_time as it was.
on_failure_keeps_time(b, time) ==
    LET b1 == [b EXCEPT !.failure_total = @ + 1,
                        !.failure_count = @ + 1] IN
    IF b1.state = CLOSED
    THEN IF b1.failure_count >= b1.config.failure_threshold
         THEN [b1 EXCEPT !.state = OPEN]
         ELSE b1
    ELSE IF b1.state = HALF_OPEN
    THEN [b1 EXCEPT !.state = OPEN]
    ELSE b1

\* _on_failure counting the failure in the streak but not in failure_total.
on_failure_skips_total(b, time) ==
    LET b1 == [b EXCEPT !.failure_count = @ + 1,
                        !.last_failure_time = time] IN
    IF b1.state = CLOSED
    THEN IF b1.failure_count >= b1.config.failure_threshold
         THEN [b1 EXCEPT !.state = OPEN]
         ELSE b1
    ELSE IF b1.state = HALF_OPEN
    THEN [b1 EXCEPT !.state = OPEN]
    ELSE b1

\* _on_failure clearing the failure streak when it opens the circuit.
on_failure_resets_streak(b, time) ==
    LET b1 == [b EXCEPT !.failure_total = @ + 1,
                        !.failure_count = @ + 1,
                        !.last_failure_time = time] IN
    IF b1.state = CLOSED
    THEN IF b1.failure_count >= b1.config.failure_threshold
         THEN [b1 EXCEPT !.state = OPEN, !.failure_count = 0]
         ELSE b1
    ELSE IF b1.state = HALF_OPEN
    THEN [b1 EXCEPT !.state = OPEN, !.failure_count = 0]
    ELSE b1

\* _on_failure leaving last_failure_time as it was when the breaker is OPEN.
on_failure_keeps_opening_time(b, time) ==
    LET b1 == [b EXCEPT !.failure_total = @ + 1,
                        !.failure_count = @ + 1,
                        !.last_failure_time = IF b.state = OPEN THEN @ ELSE time] IN
    IF b1.state = CLOSED
    THEN IF b1.failure_count >= b1.config.failure_threshold
         THEN [b1 EXCEPT !.state = OPEN]
         ELSE b1
    ELSE IF b1.state = HALF_OPEN
    THEN [b1 EXCEPT !.state = OPEN]
    ELSE b1

\* CircuitBreaker._on_failure; time is what time.time() returns there
on_failure(b, time) ==
    LET b1 == [b EXCEPT !.failure_total = @ + 1,
                        !.failure_count = @ + 1,
                        !.last_failure_time = time] IN
    IF b1.state = CLOSED
    THEN IF b1.failure_count >= b1.config.failure_threshold
         THEN [b1 EXCEPT !.state = OPEN]
         ELSE b1
    ELSE IF b1.state = HALF_OPEN
    THEN [b1 EXCEPT !.state = OPEN]
    ELSE b1

\* The context of CircuitBreakerOpenError (circuit_breaker.py:95-100); time is the
\* value time.time() returns when the context is built.
OpenErrorContext(b, time) ==
    [ circuit_name |-> b.name,
      state |-> b.state,
      failure_count |-> b.failure_count,
      time_until_retry |-> b.config.recovery_timeout - (time - b.last_failure_time) ]

\* The context of CircuitBreakerTimeoutError (circuit_breaker.py:124-127)
TimeoutErrorContext(b) == [circuit_name |-> b.name, timeout |-> b.config.timeout]

\* A call that treats every exception of the operation as a counted failure.
on_unexpected_is_counted(b, time) == on_failure(b, time)

\* Lines 141-149: an exception that is no instance of expected_exception is
\* logged and re-raised; the breaker records nothing.
on_unexpected(b, time) == b

NoContext ==
    [circuit_name |-> "", state |-> "", failure_count |-> 0, time_until_retry |-> 0]

NoOutcome == [kind |-> "none", task |-> 0, context |-> NoContext]

\* RateLimiter.__init__
RateLimiter(max_requests, time_window) ==
    [ max_requests |-> max_requests, time_window |-> time_window,
      requests |-> <<>>, locked |-> FALSE ]

NoLocal == [now |-> 0, before |-> <<>>, after |-> <<>>]

\* History of the breaker's calls: how many were started (admitted or
\* rejected), how many ended in each way, the tasks whose operation was
\* admitted while the breaker was HALF_OPEN, since it last became so, and is
\* still awaited, while the breaker is OPEN, the time at which it opened, and
\* whether the last step of the breaker recorded the outcome of an operation that
\* ended while the breaker was HALF_OPEN and was admitted before that episode.
NoHistory ==
    [ started |-> 0, succeeded |-> 0, failures |-> 0, rejected |-> 0, uncounted |-> 0,
      probing |-> {}, opened_at |-> 0, late |-> "none" ]

NoResponse == [kind |-> "none", status |-> 0]
NoReturn == [kind |-> "none", attempts |-> 0, error |-> NoResponse]
NoLoop == [client |-> "none", pc |-> "idle", attempt |-> 0, last_exception |-> NoResponse]

\* The parts of a state that belong to the breaker and to the limiter when no
\* task is using them.
BreakerIdle ==
    /\ pc = [t \in Tasks |-> "idle"]
    /\ outcome = NoOutcome
    /\ streak = 0
    /\ hoSucc = 0
    /\ hist = NoHistory

LimiterIdle ==
    /\ rpc = [t \in Tasks |-> "idle"]
    /\ local = [t \in Tasks |-> NoLocal]
    /\ result = [t \in Tasks |-> "none"]
    /\ admitted = <<>>
    /\ everDenied = FALSE

GeminiQuiet ==
    /\ gpc = [t \in Tasks |-> "idle"]
    /\ attempt = [t \in Tasks |-> 0]
    /\ started = [t \in Tasks |-> 0]
    /\ timer = [t \in Tasks |-> 0]
    /\ gres = [t \in Tasks |-> "none"]
    /\ sent = [t \in Tasks |-> 0]
    /\ logical = 0

GeminiIdle ==
    /\ GeminiQuiet
    /\ wire = 0

RetryIdle ==
    /\ loop = NoLoop
    /\ tried = <<>>
    /\ slept = <<>>
    /\ ret = NoReturn

\* CircuitBreakerManager.__init__ (line 220): no breaker yet.
RegistryIdle ==
    /\ breakers = [n \in {} |-> 0]
    /\ heap = <<>>
    /\ ref = [t \in Tasks |-> 0]
    /\ stats = [n \in {} |-> 0]
    /\ lookedUp = {}

\* Background schedulers (backup_service.py:233, summary_service.py:258,
\* gmail_watcher_service.py:399)
Schedulers == {"run_daily_backup_scheduler", "run_daily_scheduler", "run_renewal_scheduler"}

NoWait == [ pc |-> "idle", start_time |-> 0, max_wait |-> 0, wake |-> 0,
            polls |-> <<>>, taken |-> 0, ret |-> "none" ]
NoSched == [pc |-> "none", delay |-> 0, failures |-> 0, last |-> "none"]

LoopsIdle ==
    /\ wait = NoWait
    /\ sched = [s \in Schedulers |-> NoSched]

\* call's cooldown test with the boundary excluded (> for >=).
call_enter_strict(b, time) ==
    LET b1 == [b EXCEPT !.call_count = @ + 1] IN
    IF b1.state = OPEN
    THEN IF time - b1.last_failure_time > b1.config.recovery_timeout
         THEN [ breaker |-> [b1 EXCEPT !.state = HALF_OPEN, !.success_count = 0],
                rejected |-> FALSE ]
         ELSE [breaker |-> b1, rejected |-> TRUE]
    ELSE [breaker |-> b1, rejected |-> FALSE]

\* call entering HALF_OPEN without clearing the success streak.
call_enter_keeps_successes(b, time) ==
    LET b1 == [b EXCEPT !.call_count = @ + 1] IN
    IF b1.state = OPEN
    THEN IF time - b1.last_failure_time >= b1.config.recovery_timeout
         THEN [breaker |-> [b1 EXCEPT !.state = HALF_OPEN], rejected |-> FALSE]
         ELSE [breaker |-> b1, rejected |-> TRUE]
    ELSE [breaker |-> b1, rejected |-> FALSE]

\* call counting only the calls it lets through.
call_enter_skips_rejected(b, time) ==
    IF b.state = OPEN
    THEN IF time - b.last_failure_time >= b.config.recovery_timeout
         THEN [ breaker |-> [b EXCEPT !.call_count = @ + 1, !.state = HALF_OPEN,
                                      !.success_count = 0],
                rejected |-> FALSE ]
         ELSE [breaker |-> b, rejected |-> TRUE]
    ELSE [breaker |-> [b EXCEPT !.call_count = @ + 1], rejected |-> FALSE]

\* CircuitBreaker.call up to its await (circuit_breaker.py:75-101): the call is
\* counted, an OPEN breaker whose cooldown has elapsed becomes HALF_OPEN, and an
\* OPEN breaker whose cooldown has not elapsed rejects the call. time is what
\* time.time() returns in the cooldown test.
call_enter(b, time) ==
    LET b1 == [b EXCEPT !.call_count = @ + 1] IN
    IF b1.state = OPEN
    THEN IF time - b1.last_failure_time >= b1.config.recovery_timeout
         THEN [ breaker |-> [b1 EXCEPT !.state = HALF_OPEN, !.success_count = 0],
                rejected |-> FALSE ]
         ELSE [breaker |-> b1, rejected |-> TRUE]
    ELSE [breaker |-> b1, rejected |-> FALSE]

Init ==
    /\ \E c \in Configs : cb = CircuitBreaker("test_service", c)
    /\ now = 0
    /\ BreakerIdle
    /\ rl = RateLimiter(1, 1)
    /\ LimiterIdle
    /\ GeminiIdle
    /\ RetryIdle
    /\ RegistryIdle
    /\ LoopsIdle

\* The clock advances; nothing else happens.
Tick ==
    /\ now < MaxTime
    /\ now' = now + 1
    /\ UNCHANGED <<cbstate, rlstate, gemstate, retrystate, regstate, loopstate>>

\* History: successes since the breaker last became HALF_OPEN.
HoSuccAfter(success) ==
    IF cb'.state = HALF_OPEN /\ cb.state # HALF_OPEN THEN 0
    ELSE IF success /\ cb.state = HALF_OPEN THEN hoSucc + 1
    ELSE hoSucc

\* History: the operations admitted in the current HALF_OPEN episode and still
\* awaited, after a step of task t that starts (entered) or ends its operation.
ProbingAfter(t, entered) ==
    IF cb'.state # HALF_OPEN THEN {}
    ELSE LET before == IF cb.state = HALF_OPEN THEN hist.probing ELSE {} IN
         IF entered THEN before \cup {t} ELSE before \ {t}

\* History: the outcome ("success", "failure") that task t records in this
\* step, if its operation was admitted before the current HALF_OPEN episode.
LateAfter(t, recorded) ==
    IF cb.state = HALF_OPEN /\ t \notin hist.probing THEN recorded ELSE "none"

\* History: when the breaker opened, while it is OPEN.
OpenedAfter ==
    IF cb'.state # OPEN THEN 0
    ELSE IF cb.state # OPEN THEN now
    ELSE hist.opened_at

\* Task t calls the breaker. A rejected call raises CircuitBreakerOpenError at
\* once; the error's context reads the clock again (line 99), after the
\* cooldown test (line 79) and the log call, so the clock may have advanced.
Call(t) ==
    /\ pc[t] = "idle"
    /\ cb.call_count < MaxCalls
    /\ LET r == call_enter(cb, now) IN
        /\ cb' = r.breaker
        /\ IF r.rejected
           THEN \E d \in 0..MaxSkew :
                    /\ now + d <= MaxTime
                    /\ now' = now + d
                    /\ outcome' = [ kind |-> "CircuitBreakerOpenError", task |-> t,
                                    context |-> OpenErrorContext(r.breaker, now + d) ]
                    /\ pc' = pc
           ELSE /\ pc' = [pc EXCEPT ![t] = "running"]
                /\ UNCHANGED <<now, outcome>>
    /\ hoSucc' = HoSuccAfter(FALSE)
    /\ hist' = IF call_enter(cb, now).rejected
               THEN [hist EXCEPT !.started = @ + 1, !.rejected = @ + 1, !.late = "none"]
               ELSE [hist EXCEPT !.started = @ + 1, !.probing = ProbingAfter(t, TRUE),
                               !.opened_at = OpenedAfter,
                               !.late = LateAfter(t, "none")]
    /\ UNCHANGED <<streak, rlstate, gemstate, retrystate, regstate, loopstate>>

\* The awaited operation of task t returns: _on_success, then the result is returned.
Succeed(t) ==
    /\ pc[t] = "running"
    /\ cb' = on_success(cb)
    /\ pc' = [pc EXCEPT ![t] = "idle"]
    /\ outcome' = [kind |-> "result", task |-> t, context |-> NoContext]
    /\ streak' = IF cb.state = CLOSED \/ cb'.state = CLOSED THEN 0 ELSE streak
    /\ hoSucc' = HoSuccAfter(TRUE)
    /\ hist' = [hist EXCEPT !.succeeded = @ + 1, !.probing = ProbingAfter(t, FALSE),
                               !.opened_at = OpenedAfter,
                               !.late = LateAfter(t, "success")]
    /\ UNCHANGED <<now, rlstate, gemstate, retrystate, regstate, loopstate>>

\* The operation raises an instance of config.expected_exception: _on_failure,
\* then the exception is re-raised (lines 131-139).
Fail(t) ==
    /\ pc[t] = "running"
    /\ cb' = on_failure(cb, now)
    /\ pc' = [pc EXCEPT ![t] = "idle"]
    /\ outcome' = [kind |-> "expected_exception", task |-> t, context |-> NoContext]
    /\ streak' = streak + 1
    /\ hoSucc' = HoSuccAfter(FALSE)
    /\ hist' = [hist EXCEPT !.failures = @ + 1, !.probing = ProbingAfter(t, FALSE),
                               !.opened_at = OpenedAfter,
                               !.late = LateAfter(t, "failure")]
    /\ UNCHANGED <<now, rlstate, gemstate, retrystate, regstate, loopstate>>

\* asyncio.wait_for gives up after config.timeout: _on_failure, then
\* CircuitBreakerTimeoutError is raised (lines 114-129).
Timeout(t) ==
    /\ pc[t] = "running"
    /\ cb' = on_failure(cb, now)
    /\ pc' = [pc EXCEPT ![t] = "idle"]
    /\ outcome' = [ kind |-> "CircuitBreakerTimeoutError", task |-> t,
                    context |-> TimeoutErrorContext(cb) ]
    /\ streak' = streak + 1
    /\ hoSucc' = HoSuccAfter(FALSE)
    /\ hist' = [hist EXCEPT !.failures = @ + 1, !.probing = ProbingAfter(t, FALSE),
                               !.opened_at = OpenedAfter,
                               !.late = LateAfter(t, "failure")]
    /\ UNCHANGED <<now, rlstate, gemstate, retrystate, regstate, loopstate>>

\* The operation raises an exception that is no instance of
\* config.expected_exception: re-raised, nothing recorded (lines 141-149).
Unexpected(t) ==
    /\ pc[t] = "running"
    /\ cb' = on_unexpected(cb, now)
    /\ pc' = [pc EXCEPT ![t] = "idle"]
    /\ outcome' = [kind |-> "unexpected_exception", task |-> t, context |-> NoContext]
    /\ hist' = [hist EXCEPT !.uncounted = @ + 1, !.probing = ProbingAfter(t, FALSE),
                               !.opened_at = OpenedAfter,
                               !.late = LateAfter(t, "none")]
    /\ UNCHANGED <<now, streak, hoSucc, rlstate, gemstate, retrystate, regstate, loopstate>>

Next ==
    \/ Tick
    \/ \E t \in Tasks : Call(t)
    \/ \E t \in Tasks : Succeed(t)
    \/ \E t \in Tasks : Fail(t)
    \/ \E t \in Tasks : Timeout(t)
    \/ \E t \in Tasks : Unexpected(t)

Spec == Init /\ [][Next]_vars

\* ------------------------------------------------- circuit breaker: claims
FailureStep == \E t \in Tasks : Fail(t) \/ Timeout(t)
SuccessStep == \E t \in Tasks : Succeed(t)
CallStep == \E t \in Tasks : Call(t)
CoolingDown == cb.state = OPEN /\ now - cb.last_failure_time < cb.config.recovery_timeout
CooledDown == cb.state = OPEN /\ now - cb.last_failure_time >= cb.config.recovery_timeout

\* C1. Threshold invariant: while CLOSED the failure streak is the number of
\* counted failures (timeouts included) since the last success or closing and is
\* below failure_threshold; CLOSED becomes OPEN exactly at the failure that
\* brings the streak to failure_threshold; a success while CLOSED resets the
\* streak to 0 and leaves the breaker CLOSED.
C1_Threshold ==
    /\ [](cb.state = CLOSED =>
            cb.failure_count = streak /\ cb.failure_count < cb.config.failure_threshold)
    /\ [][ /\ (cb.state = CLOSED /\ cb'.state = OPEN) =>
                (FailureStep /\ streak' = cb.config.failure_threshold)
           /\ (cb.state = CLOSED /\ FailureStep /\ streak' >= cb.config.failure_threshold) =>
                cb'.state = OPEN
           /\ (cb.state = CLOSED /\ SuccessStep) =>
                (cb'.failure_count = 0 /\ cb'.state = CLOSED) ]_vars

\* C1 witness: with failure_threshold 2, a failure, a success and two more
\* failures have been recorded and the last one opened the circuit.
C1_Witness ==
    /\ cb.config.failure_threshold = 2
    /\ cb.state = OPEN
    /\ cb.success_total = 1
    /\ cb.failure_total = 3
    /\ streak = 2

\* C2. A call made while OPEN with the cooldown not elapsed raises
\* CircuitBreakerOpenError whose context holds the name, "open", the failure
\* streak and time_until_retry = recovery_timeout - (clock - last_failure_time),
\* strictly positive (the clock taken as late as when the context is built); the
\* operation is not started and state, streak counters, last_failure_time,
\* success_total and failure_total are unchanged.
C2_RejectedCall ==
    [][ \A t \in Tasks : (Call(t) /\ CoolingDown) =>
          /\ outcome'.kind = "CircuitBreakerOpenError" /\ outcome'.task = t
          /\ outcome'.context.circuit_name = cb.name
          /\ outcome'.context.state = OPEN
          /\ outcome'.context.failure_count = cb.failure_count
          /\ outcome'.context.time_until_retry =
                cb.config.recovery_timeout - (now' - cb.last_failure_time)
          /\ outcome'.context.time_until_retry > 0
          /\ pc'[t] = "idle"
          /\ cb'.state = cb.state
          /\ cb'.failure_count = cb.failure_count
          /\ cb'.success_count = cb.success_count
          /\ cb'.last_failure_time = cb.last_failure_time
          /\ cb'.success_total = cb.success_total
          /\ cb'.failure_total = cb.failure_total ]_vars

\* C3. Cooldown invariant: a call made while OPEN before the cooldown has
\* elapsed is rejected and leaves the breaker OPEN; a call made while OPEN at or
\* after the boundary makes the breaker HALF_OPEN with success_count 0 and starts
\* its operation; OPEN becomes HALF_OPEN in no other step, so without a call the
\* breaker stays OPEN while time passes.
C3_Cooldown ==
    [][ /\ \A t \in Tasks : (Call(t) /\ CoolingDown) =>
              /\ cb'.state = OPEN
              /\ pc'[t] = "idle"
              /\ outcome'.kind = "CircuitBreakerOpenError" /\ outcome'.task = t
        /\ \A t \in Tasks : (Call(t) /\ CooledDown) =>
              /\ cb'.state = HALF_OPEN
              /\ cb'.success_count = 0
              /\ pc'[t] = "running"
        /\ (cb.state = OPEN /\ cb'.state = HALF_OPEN) => (CallStep /\ CooledDown)
        /\ (cb.state = OPEN /\ Tick) => cb'.state = OPEN ]_vars

\* C3 witness: a call made exactly at the boundary was let through as a probe.
C3_Witness ==
    /\ cb.state = HALF_OPEN
    /\ now - cb.last_failure_time = cb.config.recovery_timeout
    /\ cb.success_count = 0
    /\ \E t \in Tasks : pc[t] = "running"
    /\ outcome.kind = "CircuitBreakerOpenError"

\* C4. Half-open close invariant: while HALF_OPEN fewer than success_threshold
\* successes have been recorded since the breaker became HALF_OPEN; HALF_OPEN
\* becomes CLOSED exactly at the success that brings that number to
\* success_threshold, and failure_count is then 0.
C4_HalfOpenClose ==
    /\ [](cb.state = HALF_OPEN => hoSucc < cb.config.success_threshold)
    /\ [][ /\ (cb.state # CLOSED /\ cb'.state = CLOSED) =>
                /\ cb.state = HALF_OPEN
                /\ SuccessStep
                /\ hoSucc' = cb.config.success_threshold
                /\ cb'.failure_count = 0
           /\ (cb.state = HALF_OPEN /\ SuccessStep
                    /\ hoSucc' >= cb.config.success_threshold) =>
                cb'.state = CLOSED ]_vars

\* C4 witness: with success_threshold 2 the second probe success closed the circuit.
C4_Witness ==
    /\ cb.config.success_threshold = 2
    /\ cb.state = CLOSED
    /\ hoSucc = 2
    /\ cb.failure_total >= cb.config.failure_threshold
    /\ outcome.kind = "result"

\* C5. A counted failure or timeout recorded while HALF_OPEN makes the breaker
\* OPEN and sets last_failure_time to the time of that failure; whenever the
\* breaker becomes HALF_OPEN success_count starts from 0, so while HALF_OPEN
\* success_count holds only the successes of the current episode.
C5_HalfOpenFailure ==
    /\ [](cb.state = HALF_OPEN => cb.success_count = hoSucc)
    /\ [][ /\ (cb.state = HALF_OPEN /\ FailureStep) =>
                (cb'.state = OPEN /\ cb'.last_failure_time = now)
           /\ (cb.state # HALF_OPEN /\ cb'.state = HALF_OPEN) =>
                cb'.success_count = 0 ]_vars

\* C5 witness: with success_threshold 2, a probe succeeded, a later probe
\* failed, and in the next HALF_OPEN episode one success has not closed the circuit.
C5_Witness ==
    /\ cb.config.success_threshold = 2
    /\ cb.state = HALF_OPEN
    /\ cb.success_total = 2
    /\ cb.success_count = 1
    /\ cb.failure_total >= 2

\* C6. Whatever the interleaving of concurrent calls, the state changes only
\* along CLOSED->OPEN, OPEN->HALF_OPEN, HALF_OPEN->CLOSED and HALF_OPEN->OPEN.
TransitionTable ==
    { <<CLOSED, OPEN>>, <<OPEN, HALF_OPEN>>, <<HALF_OPEN, CLOSED>>, <<HALF_OPEN, OPEN>> }

C6_Transitions ==
    [][cb'.state # cb.state => <<cb.state, cb'.state>> \in TransitionTable]_vars

\* C6 witness: a call admitted before the circuit opened has just reported its
\* success to the OPEN breaker.
C6_Witness ==
    /\ cb.state = OPEN
    /\ outcome.kind = "result"
    /\ cb.success_total >= 1
    /\ cb.failure_total >= cb.config.failure_threshold

\* What _on_failure does to the state: a CLOSED breaker opens exactly when the
\* streak reaches failure_threshold, a HALF_OPEN one reopens, an OPEN one stays.
FailureRules ==
    /\ cb.state = CLOSED =>
        cb'.state = IF cb.failure_count + 1 >= cb.config.failure_threshold
                    THEN OPEN ELSE CLOSED
    /\ cb.state \in {HALF_OPEN, OPEN} => cb'.state = OPEN

OneFailureCounted ==
    /\ cb'.failure_total = cb.failure_total + 1
    /\ cb'.failure_count = cb.failure_count + 1
    /\ cb'.last_failure_time = now
    /\ cb'.success_total = cb.success_total
    /\ cb'.success_count = cb.success_count
    /\ cb'.call_count = cb.call_count
    /\ FailureRules

\* C14. When the operation does not finish within config.timeout, the call
\* counts exactly one failure (failure_total and failure_count each +1,
\* last_failure_time refreshed, threshold and half-open rules applied) and
\* raises CircuitBreakerTimeoutError carrying the breaker's name and the
\* timeout, a kind distinct from the operation's own exception.
C14_TimeoutCounts ==
    [][ \A t \in Tasks : Timeout(t) =>
          /\ OneFailureCounted
          /\ pc'[t] = "idle"
          /\ outcome'.kind = "CircuitBreakerTimeoutError" /\ outcome'.task = t
          /\ outcome'.kind \notin {"expected_exception", "unexpected_exception", "result"}
          /\ outcome'.context.circuit_name = cb.name
          /\ outcome'.context.timeout = cb.config.timeout ]_vars

\* C14 witness: a probe admitted after the cooldown timed out and reopened the
\* circuit at a later instant than the failures that had opened it.
C14_Witness ==
    /\ outcome.kind = "CircuitBreakerTimeoutError"
    /\ outcome.context = [circuit_name |-> "test_service", timeout |-> 30]
    /\ cb.state = OPEN
    /\ cb.failure_total = cb.config.failure_threshold + 1
    /\ cb.failure_count = cb.failure_total
    /\ cb.last_failure_time = now /\ now >= cb.config.recovery_timeout
    /\ \A t \in Tasks : pc[t] = "idle"

\* C15. When the operation raises an instance of config.expected_exception,
\* the call does the failure bookkeeping (failure_total +1, failure_count +1,
\* last_failure_time = now, possibly the transition to OPEN) and re-raises that
\* exception; it returns no value and does not swallow the failure.
C15_ExpectedReraised ==
    [][ \A t \in Tasks : Fail(t) =>
          /\ OneFailureCounted
          /\ pc'[t] = "idle"
          /\ outcome' = [kind |-> "expected_exception", task |-> t, context |-> NoContext]
          /\ outcome'.kind # "result" ]_vars

\* C15 witness: with failure_threshold 2 the second consecutive exception of
\* the operation opened the circuit and reached the caller.
C15_Witness ==
    /\ cb.config.failure_threshold = 2
    /\ outcome.kind = "expected_exception"
    /\ cb.state = OPEN
    /\ cb.failure_total = 2 /\ cb.failure_count = 2
    /\ cb.call_count = 2
    /\ cb.last_failure_time = now /\ now > 0

\* C16. When the operation raises an exception that is neither a timeout nor
\* an instance of expected_exception, the call re-raises it and leaves state,
\* failure_count, success_count, last_failure_time, success_total and
\* failure_total as they were; call_count grew when the call started. Such an
\* exception neither opens a CLOSED breaker nor reopens a HALF_OPEN one.
C16_UnexpectedUncounted ==
    [][ \A t \in Tasks : Unexpected(t) =>
          /\ outcome' = [kind |-> "unexpected_exception", task |-> t, context |-> NoContext]
          /\ pc'[t] = "idle"
          /\ cb'.state = cb.state
          /\ cb'.failure_count = cb.failure_count
          /\ cb'.success_count = cb.success_count
          /\ cb'.last_failure_time = cb.last_failure_time
          /\ cb'.success_total = cb.success_total
          /\ cb'.failure_total = cb.failure_total
          /\ cb'.call_count = cb.call_count
          /\ cb.call_count > cb.success_total + cb.failure_total ]_vars

\* C16 witness: the probe of a HALF_OPEN breaker ended in an uncounted
\* exception and the breaker is still HALF_OPEN with no call in flight.
C16_Witness ==
    /\ outcome.kind = "unexpected_exception"
    /\ cb.state = HALF_OPEN
    /\ cb.success_count = 0
    /\ cb.call_count = cb.failure_total + 1
    /\ \A t \in Tasks : pc[t] = "idle"

NoCallInFlight == \A t \in Tasks : pc[t] = "idle"
CallsInFlight == Cardinality({t \in Tasks : pc[t] = "running"})

\* C17 as claimed. Whenever no call is in flight, call_count equals
\* success_total + failure_total, for every sequence of successful, failing,
\* timed-out, rejected and uncounted-exception calls.
C17_TotalsBalance ==
    NoCallInFlight => cb.call_count = cb.success_total + cb.failure_total

\* C17 as amended. Whenever no call is in flight, call_count equals
\* success_total + failure_total plus the calls rejected while OPEN plus the
\* calls ended by an exception the breaker does not count; with calls in
\* flight, those are the remainder.
C17_TotalsWithUnrecorded ==
    /\ cb.call_count = cb.success_total + cb.failure_total
                        + hist.rejected + hist.uncounted + CallsInFlight
    /\ NoCallInFlight =>
        cb.call_count = cb.success_total + cb.failure_total
                         + hist.rejected + hist.uncounted

\* C17 witness: four calls have ended, one in each way: a success, a counted
\* failure, a rejection and an uncounted exception.
C17_Witness ==
    /\ NoCallInFlight
    /\ cb.call_count = 4
    /\ cb.success_total = 1 /\ cb.failure_total = 1
    /\ hist.rejected = 1 /\ hist.uncounted = 1

\* C20. Under every interleaving of concurrent calls no counter update is
\* lost: call_count is the number of calls started, success_total the number
\* of operations that returned, failure_total the number of counted failures
\* and timeouts; the streak counters are those of the outcomes taken one at a
\* time in the order they completed (failure_count the counted failures since
\* the last success or closing, success_count the successes of the HALF_OPEN
\* episode); and an outcome that completes while the breaker is OPEN leaves it OPEN.
C20_NoLostUpdate ==
    /\ [](/\ cb.call_count = hist.started
          /\ cb.success_total = hist.succeeded
          /\ cb.failure_total = hist.failures
          /\ cb.failure_count = streak
          /\ (cb.state = HALF_OPEN => cb.success_count = hoSucc))
    /\ [][ (cb.state = OPEN /\ (SuccessStep \/ FailureStep)) => cb'.state = OPEN ]_vars

\* C20 witness: four calls were started and all have finished; two returned
\* and two failed, and the last to finish was a success of a call that was in
\* flight when the second failure opened the circuit.
C20_Witness ==
    /\ NoCallInFlight
    /\ cb.config.failure_threshold = 2
    /\ hist.started = 4 /\ hist.succeeded = 2 /\ hist.failures = 2
    /\ cb.state = OPEN /\ cb.failure_count = 2
    /\ outcome.kind = "result"

\* ------------------------------------------------------------ rate limiter
\* acquire's purge keeping the entries that are exactly time_window old (< for <=).
purge_keeps_boundary(requests, time, time_window) ==
    LET RECURSIVE drop(_)
        drop(q) == IF q # <<>> /\ Head(q) < time - time_window THEN drop(Tail(q)) ELSE q
    IN drop(requests)

\* acquire's purge removing the oldest request only (if for while).
purge_only_oldest(requests, time, time_window) ==
    IF requests # <<>> /\ Head(requests) <= time - time_window THEN Tail(requests) ELSE requests

\* RateLimiter.acquire, lines 38-40: pop from the left while the oldest retained
\* request is time_window or more old.
purge(requests, time, time_window) ==
    LET RECURSIVE drop(_)
        drop(q) == IF q # <<>> /\ Head(q) <= time - time_window THEN drop(Tail(q)) ELSE q
    IN drop(requests)

\* acquire's capacity test admitting one request too many (<= for <).
has_capacity_off_by_one(r) == Len(r.requests) <= r.max_requests

\* RateLimiter.acquire, line 43
has_capacity(r) == Len(r.requests) < r.max_requests

\* A lock that never makes a caller wait.
lock_free_always(r) == TRUE

\* asyncio.Lock: `async with self._lock` goes on only while the lock is not held.
lock_free(r) == ~r.locked

InitRL ==
    /\ now = 0
    /\ \E m \in 1..MaxRequests, w \in 1..MaxWindow : rl = RateLimiter(m, w)
    /\ LimiterIdle
    /\ cb = CircuitBreaker("test_service", CircuitBreakerConfig(1, 1, 30, 1))
    /\ BreakerIdle
    /\ GeminiIdle
    /\ RetryIdle
    /\ RegistryIdle
    /\ LoopsIdle

\* Task t calls acquire and reaches `async with self._lock` (line 35): it takes
\* the lock if it is free and otherwise waits for it.
AcquireEnter(t) ==
    /\ rpc[t] = "idle"
    /\ IF lock_free(rl)
       THEN /\ rl' = [rl EXCEPT !.locked = TRUE]
            /\ rpc' = [rpc EXCEPT ![t] = "locked"]
       ELSE /\ rpc' = [rpc EXCEPT ![t] = "waiting"]
            /\ UNCHANGED rl
    /\ UNCHANGED <<now, local, result, admitted, everDenied, cbstate, gemstate, retrystate, regstate, loopstate>>

\* A waiting task obtains the released lock.
AcquireWake(t) ==
    /\ rpc[t] = "waiting"
    /\ lock_free(rl)
    /\ rl' = [rl EXCEPT !.locked = TRUE]
    /\ rpc' = [rpc EXCEPT ![t] = "locked"]
    /\ UNCHANGED <<now, local, result, admitted, everDenied, cbstate, gemstate, retrystate, regstate, loopstate>>

\* Lines 36-40: read the clock, drop the expired requests.
AcquirePurge(t) ==
    /\ rpc[t] = "locked"
    /\ LET kept == purge(rl.requests, now, rl.time_window) IN
        /\ rl' = [rl EXCEPT !.requests = kept]
        /\ local' = [local EXCEPT ![t] = [now |-> now, before |-> rl.requests, after |-> kept]]
    /\ rpc' = [rpc EXCEPT ![t] = "purged"]
    /\ UNCHANGED <<now, result, admitted, everDenied, cbstate, gemstate, retrystate, regstate, loopstate>>

\* Lines 43-60: admit (append the local now, return True) or deny (return
\* False); leaving the `async with` block releases the lock.
AcquireDecide(t) ==
    /\ rpc[t] = "purged"
    /\ IF has_capacity(rl)
       THEN /\ rl' = [rl EXCEPT !.requests = Append(@, local[t].now), !.locked = FALSE]
            /\ result' = [result EXCEPT ![t] = "allowed"]
            /\ admitted' = Append(admitted, local[t].now)
            /\ UNCHANGED everDenied
       ELSE /\ rl' = [rl EXCEPT !.locked = FALSE]
            /\ result' = [result EXCEPT ![t] = "denied"]
            /\ everDenied' = TRUE
            /\ UNCHANGED admitted
    /\ rpc' = [rpc EXCEPT ![t] = "idle"]
    /\ local' = [local EXCEPT ![t] = NoLocal]
    /\ UNCHANGED <<now, cbstate, gemstate, retrystate, regstate, loopstate>>

NextRL ==
    \/ Tick
    \/ \E t \in Tasks : AcquireEnter(t)
    \/ \E t \in Tasks : AcquireWake(t)
    \/ \E t \in Tasks : AcquirePurge(t)
    \/ \E t \in Tasks : AcquireDecide(t)

SpecRL == InitRL /\ [][NextRL]_vars

\* ---------------------------------------------------- rate limiter: claims
\* The acquires that returned True at a time in [a, a + time_window).
AdmittedIn(a) ==
    { i \in DOMAIN admitted : a <= admitted[i] /\ admitted[i] < a + rl.time_window }

\* C7. Rate limiter cap: the acquires that returned True within any interval of
\* time_window seconds (closed at its start, open at its end) number at most
\* max_requests.
C7_RollingCap ==
    \A a \in 0..MaxTime : Cardinality(AdmittedIn(a)) <= rl.max_requests

\* C7 witness: more than max_requests acquires have been admitted over time,
\* one was denied, and the window ending now is full.
C7_Witness ==
    /\ Len(admitted) > rl.max_requests
    /\ everDenied
    /\ rl.time_window = 2
    /\ Cardinality(AdmittedIn(now - rl.time_window + 1)) = rl.max_requests

\* The retained requests that are less than time_window old at the given time.
StillFresh(requests, time) ==
    LET Fresh(x) == x > time - rl.time_window IN SelectSeq(requests, Fresh)

\* C8. acquire returns True iff, of the requests retained when it was called,
\* fewer than max_requests are less than time_window old; returning True it
\* leaves those and the current time appended; returning False it leaves the
\* retained requests as they were before the call.
C8_Acquire ==
    [][ \A t \in Tasks : AcquireDecide(t) =>
          LET fresh == StillFresh(local[t].before, local[t].now) IN
            /\ (result'[t] = "allowed") <=> (Len(fresh) < rl.max_requests)
            /\ result'[t] \in {"allowed", "denied"}
            /\ result'[t] = "allowed" => rl'.requests = Append(fresh, local[t].now)
            /\ result'[t] = "denied" => rl'.requests = local[t].before ]_vars

\* C8 witness (the scenario, with max_requests = 2 for 10): the first
\* max_requests acquires were admitted, a further one was denied, and after the
\* window passed an acquire was admitted again.
C8_Witness ==
    /\ rl.max_requests = 2
    /\ everDenied
    /\ Len(admitted) = 3
    /\ admitted[3] >= admitted[1] + rl.time_window
    /\ admitted[2] = admitted[1]
    /\ \E t \in Tasks : result[t] = "allowed" /\ rpc[t] = "idle"

InCritical(t) == rpc[t] \in {"locked", "purged"}

\* C9. The purge, capacity check and append of acquire are atomic among
\* concurrent callers: at most one task is between taking and releasing the
\* lock; between a task's purge and its decision the retained requests are what
\* its purge left; the retained requests never exceed max_requests; and a
\* caller is denied only when max_requests requests are retained, so of the
\* callers contending at one instant as many are admitted as there are free slots.
C9_Atomic ==
    /\ [](\A t, u \in Tasks : InCritical(t) /\ InCritical(u) => t = u)
    /\ [](\A t \in Tasks : rpc[t] = "purged" => rl.requests = local[t].after)
    /\ [](Len(rl.requests) <= rl.max_requests)
    /\ [](rl.locked <=> \E t \in Tasks : InCritical(t))
    /\ [][ \A t \in Tasks : (AcquireDecide(t) /\ result'[t] = "denied") =>
                Len(rl.requests) = rl.max_requests ]_vars

\* C9 witness: two tasks called acquire at the same instant with one slot free;
\* one was admitted and took it, the other waited for the lock, holds it now
\* after its purge and finds no capacity.
C9_Witness ==
    \E t, u \in Tasks :
        /\ t # u
        /\ rl.max_requests = 2
        /\ result[t] = "allowed" /\ rpc[t] = "idle"
        /\ rpc[u] = "purged" /\ local[u].now = admitted[Len(admitted)]
        /\ Len(rl.requests) = rl.max_requests

\* ---------------------------------------------------------- Gemini service
\* GeminiService.__init__ (gemini_service.py:52-53), httpx.AsyncClient(timeout=30.0)
max_retries == 3
base_delay == 2
HttpTimeout == 30

\* get_gemini_circuit_breaker (circuit_breaker.py:250-258)
get_gemini_circuit_breaker ==
    CircuitBreaker("gemini_api", CircuitBreakerConfig(3, 30, 30, 2))

\* gemini_rate_limiter (rate_limiter.py:105)
gemini_rate_limiter == RateLimiter(10, 60)

\* RateLimiter.acquire as one uninterrupted step (lines 35-60): its lock is
\* free whenever a task reaches it, because no task awaits while holding it.
acquire(r, time) ==
    LET r1 == [r EXCEPT !.requests = purge(@, time, r.time_window)] IN
    IF has_capacity(r1)
    THEN [limiter |-> [r1 EXCEPT !.requests = Append(@, time)], allowed |-> TRUE]
    ELSE [limiter |-> r1, allowed |-> FALSE]

\* What one attempt of the retry loop can end in: an HTTP response with a
\* status code, httpx.TimeoutException, or another exception.
Response(status) == [kind |-> "response", status |-> status]
TimeoutException == [kind |-> "TimeoutException", status |-> 0]
OtherException == [kind |-> "Exception", status |-> 0]
Responses ==
    { Response(200), Response(404), Response(429), Response(500), Response(503),
      TimeoutException, OtherException }

\* raise_for_status passes (lines 218-219)
IsSuccess(resp) == resp.kind = "response" /\ resp.status < 400

\* A loop giving up on every 4xx, 429 included.
breaks_on_every_4xx(resp) ==
    resp.kind = "response" /\ 400 <= resp.status /\ resp.status < 500

\* Lines 236-238: a 4xx other than 429 leaves the loop.
Breaks(resp) ==
    resp.kind = "response" /\ 400 <= resp.status /\ resp.status < 500 /\ resp.status # 429

RECURSIVE Pow2(_)
Pow2(n) == IF n = 0 THEN 1 ELSE 2 * Pow2(n - 1)

\* Line 168: the delay computed at the top of attempt a
Delay(a) == base_delay * Pow2(a)

\* A retry loop that reports every failed attempt to the breaker.
attempt_failed_is_counted(b, time) == on_failure(b, time)

\* Lines 221-245: a failed attempt is logged and remembered in last_exception;
\* the breaker is not told.
attempt_failed(b, time) == b

InFlight(t) == gpc[t] \in {"http", "sleep"}
Deadline(t) == started[t] + cb.config.timeout

\* A state the service reaches: prior analyze_text calls were all made at time 0
\* and ended at once, each having sent one request: k of them with a result
\* and then f of them with a counted failure (a 404 ends the loop without a
\* sleep).
PriorCalls == { <<0, 0>>, <<9, 0>>, <<0, 2>>, <<8, 2>> }

InitGem ==
    /\ now = 0
    /\ \E kf \in PriorCalls :
        LET k == kf[1]
            f == kf[2]
        IN  /\ rl = [gemini_rate_limiter EXCEPT !.requests = [i \in 1..(k + f) |-> 0]]
            /\ cb = [get_gemini_circuit_breaker EXCEPT
                        !.call_count = k + f, !.success_total = k,
                        !.failure_total = f, !.failure_count = f]
            /\ wire = k + f
    /\ BreakerIdle
    /\ LimiterIdle
    /\ GeminiQuiet
    /\ RetryIdle
    /\ RegistryIdle
    /\ LoopsIdle

\* A service that consults the breaker first and the limiter only for a call
\* the breaker lets through.
admission_breaker_first(r, b, time) ==
    LET e == call_enter(b, time) IN
    IF e.rejected
    THEN [limiter |-> r, breaker |-> e.breaker, allowed |-> TRUE, rejected |-> TRUE]
    ELSE LET a == acquire(r, time) IN
         [limiter |-> a.limiter, breaker |-> e.breaker, allowed |-> a.allowed,
          rejected |-> FALSE]

\* gemini_service.py lines 73-91 and 361-380: gemini_rate_limiter.acquire, and
\* only when it returned True get_gemini_circuit_breaker().call, which counts the
\* call and rejects it while the breaker is OPEN (circuit_breaker.py 75-101).
admission(r, b, time) ==
    LET a == acquire(r, time) IN
    IF ~a.allowed
    THEN [limiter |-> a.limiter, breaker |-> b, allowed |-> FALSE, rejected |-> FALSE]
    ELSE LET e == call_enter(b, time) IN
         [limiter |-> a.limiter, breaker |-> e.breaker, allowed |-> TRUE,
          rejected |-> e.rejected]

\* analyze_text and analyze_calendar_event up to their first await that
\* suspends (lines 66-91 and 354-380, then circuit_breaker.call lines 75-108 and
\* the loop's first request, lines 166-179). The two differ in the result they
\* return when the limiter denies the slot.
Analyze(t, fallback) ==
    /\ gpc[t] = "idle"
    /\ logical < MaxLogical
    /\ logical' = logical + 1
    /\ LET a == admission(rl, cb, now) IN
        /\ rl' = a.limiter
        /\ cb' = a.breaker
        /\ IF ~a.allowed
           THEN \* lines 74-84, 362-373: the result built without Gemini
                /\ gres' = [gres EXCEPT ![t] = fallback]
                /\ sent' = [sent EXCEPT ![t] = 0]
                /\ wire' = wire
                /\ UNCHANGED <<gpc, attempt, started, timer>>
           ELSE IF a.rejected
           THEN \* CircuitBreakerOpenError, wrapped by lines 105-115, 394-404
                /\ gres' = [gres EXCEPT ![t] = "ExternalServiceError"]
                /\ sent' = [sent EXCEPT ![t] = 0]
                /\ wire' = wire
                /\ UNCHANGED <<gpc, attempt, started, timer>>
           ELSE /\ gpc' = [gpc EXCEPT ![t] = "http"]
                /\ attempt' = [attempt EXCEPT ![t] = 0]
                /\ started' = [started EXCEPT ![t] = now]
                /\ timer' = [timer EXCEPT ![t] = now]
                /\ sent' = [sent EXCEPT ![t] = 1]
                /\ wire' = wire + 1
                /\ UNCHANGED gres
    /\ UNCHANGED <<now, pc, outcome, streak, hoSucc, hist, rpc, local, result, admitted, everDenied>>
    /\ UNCHANGED <<retrystate, regstate, loopstate>>

\* AnalysisResult(tasks=[], context="Rate limited - created simple task")
AnalyzeText(t) == Analyze(t, "AnalysisResult(tasks=[])")

\* CalendarAnalysisResult(title="Event", event_datetime=None, ...)
AnalyzeCalendarEvent(t) == Analyze(t, "CalendarAnalysisResult(event_datetime=None)")

Finished(t, how) ==
    /\ gpc' = [gpc EXCEPT ![t] = "idle"]
    /\ gres' = [gres EXCEPT ![t] = how]
    /\ attempt' = [attempt EXCEPT ![t] = 0]
    /\ started' = [started EXCEPT ![t] = 0]
    /\ timer' = [timer EXCEPT ![t] = 0]

\* The request of task t ends before the breaker's deadline (lines 178-245).
\* A 2xx response returns from the loop: _on_success, then the response is
\* parsed (lines 94, 255-341), which may fail. A failure that leaves attempts
\* starts the next one with its sleep (lines 166-176); otherwise the loop raises
\* GeminiServiceError (line 253), which the breaker counts and re-raises.
HttpDone(t) ==
    /\ gpc[t] = "http"
    /\ now < Deadline(t)
    /\ \E resp \in Responses :
        /\ resp.kind = "TimeoutException" => now >= timer[t] + HttpTimeout
        /\ resp.kind # "TimeoutException" => now < timer[t] + HttpTimeout
        /\ IF IsSuccess(resp)
           THEN /\ cb' = on_success(cb)
                /\ \E parsed \in {"result", "ExternalServiceError"} : Finished(t, parsed)
           ELSE IF ~Breaks(resp) /\ attempt[t] + 1 < max_retries
           THEN /\ cb' = attempt_failed(cb, now)
                /\ attempt' = [attempt EXCEPT ![t] = @ + 1]
                /\ gpc' = [gpc EXCEPT ![t] = "sleep"]
                /\ timer' = [timer EXCEPT ![t] = now + Delay(attempt[t] + 1)]
                /\ UNCHANGED <<started, gres>>
           ELSE /\ cb' = on_failure(attempt_failed(cb, now), now)
                /\ Finished(t, "ExternalServiceError")
    /\ UNCHANGED <<now, rl, sent, logical, wire>>
    /\ UNCHANGED <<pc, outcome, streak, hoSucc, hist, rpc, local, result, admitted, everDenied>>
    /\ UNCHANGED <<retrystate, regstate, loopstate>>

\* asyncio.sleep(delay) ends and the next request is sent (lines 176-179).
SleepDone(t) ==
    /\ gpc[t] = "sleep"
    /\ now >= timer[t]
    /\ now < Deadline(t)
    /\ gpc' = [gpc EXCEPT ![t] = "http"]
    /\ timer' = [timer EXCEPT ![t] = now]
    /\ sent' = [sent EXCEPT ![t] = @ + 1]
    /\ wire' = wire + 1
    /\ UNCHANGED <<now, cb, rl, attempt, started, gres, logical>>
    /\ UNCHANGED <<pc, outcome, streak, hoSucc, hist, rpc, local, result, admitted, everDenied>>
    /\ UNCHANGED <<retrystate, regstate, loopstate>>

\* A wait_for that raises on time-out and leaves the operation running.
wait_for_abandons(p) == p

\* asyncio.wait_for on time-out: the awaited coroutine is cancelled at the await
\* it is suspended in (the request or the sleep) and wait_for raises only once
\* the cancellation has been delivered; the loop's except clauses catch
\* Exception, which CancelledError is not. The position of the operation after.
wait_for_cancels(p) == "idle"

\* asyncio.wait_for gives up config.timeout after the breaker started the loop
\* and cancels it: _on_failure, CircuitBreakerTimeoutError (circuit_breaker.py
\* 105-129), wrapped by analyze_text.
BreakerTimeout(t) ==
    /\ InFlight(t)
    /\ now >= Deadline(t)
    /\ cb' = on_failure(cb, now)
    /\ gpc' = [gpc EXCEPT ![t] = wait_for_cancels(gpc[t])]
    /\ gres' = [gres EXCEPT ![t] = "ExternalServiceError"]
    /\ IF gpc'[t] = "idle"
       THEN /\ attempt' = [attempt EXCEPT ![t] = 0]
            /\ started' = [started EXCEPT ![t] = 0]
            /\ timer' = [timer EXCEPT ![t] = 0]
       ELSE UNCHANGED <<attempt, started, timer>>
    /\ UNCHANGED <<now, rl, sent, logical, wire>>
    /\ UNCHANGED <<pc, outcome, streak, hoSucc, hist, rpc, local, result, admitted, everDenied>>
    /\ UNCHANGED <<retrystate, regstate, loopstate>>

\* The instants at which a pending timer fires.
Expiries ==
    { Deadline(t) : t \in {u \in Tasks : InFlight(u)} }
        \cup { timer[t] : t \in {u \in Tasks : gpc[u] = "sleep"} }

\* The clock advances to the next instant of interest: a timer, the end of the
\* breaker's cooldown, the expiry of the oldest retained request, or GemQuantum
\* later; it never passes a pending timer.
TickGem ==
    /\ \A e \in Expiries : now < e
    /\ \E n \in (now + 1)..MaxTimeGem :
        /\ \A e \in Expiries : n <= e
        /\ \/ n \in Expiries
           \/ n = now + GemQuantum
           \/ n = cb.last_failure_time + cb.config.recovery_timeout
           \/ rl.requests # <<>> /\ n = Head(rl.requests) + rl.time_window
        /\ now' = n
    /\ UNCHANGED <<cbstate, rlstate, gemstate, retrystate, regstate, loopstate>>

NextGem ==
    \/ TickGem
    \/ \E t \in Tasks : AnalyzeText(t)
    \/ \E t \in Tasks : AnalyzeCalendarEvent(t)
    \/ \E t \in Tasks : HttpDone(t)
    \/ \E t \in Tasks : SleepDone(t)
    \/ \E t \in Tasks : BreakerTimeout(t)

SpecGem == InitGem /\ [][NextGem]_vars

\* --------------------------------------------------- Gemini service: claims
Recorded(b) == b.success_total + b.failure_total

\* C10. The retry loop is one operation for the gemini_api breaker: the
\* outcomes recorded never exceed the calls that have finished; a step that
\* keeps a task inside its loop (a failed attempt followed by a sleep, a sleep
\* followed by the next request) leaves the breaker as it is; the step that
\* ends a loop records exactly one outcome; and a loop that succeeds after
\* failed attempts adds one success, no failure, and does not raise the
\* failure streak.
C10_OneOutcomePerCall ==
    /\ [](Recorded(cb) <= cb.call_count - Cardinality({t \in Tasks : InFlight(t)}))
    /\ [][ \A t \in Tasks :
            /\ (InFlight(t) /\ gpc'[t] \in {"http", "sleep"} /\ gpc'[t] # gpc[t]) =>
                    cb' = cb
            /\ (gpc[t] = "idle" /\ gpc'[t] # "idle") =>
                    (Recorded(cb') = Recorded(cb) /\ cb'.call_count = cb.call_count + 1)
            /\ (InFlight(t) /\ gpc'[t] = "idle") =>
                    Recorded(cb') = Recorded(cb) + 1
            /\ (InFlight(t) /\ attempt[t] > 0 /\ gpc'[t] = "idle"
                    /\ cb'.success_total # cb.success_total) =>
                    /\ cb'.success_total = cb.success_total + 1
                    /\ cb'.failure_total = cb.failure_total
                    /\ cb'.failure_count \in {cb.failure_count, 0} ]_vars

\* C10 witness: the only analyze_text call so far sent three requests, the
\* third succeeded, and the breaker holds one more success and no failure.
C10_Witness ==
    \E t \in Tasks :
        /\ logical = 1
        /\ gpc[t] = "idle" /\ gres[t] = "result" /\ sent[t] = 3
        /\ cb.failure_total = 0 /\ cb.failure_count = 0
        /\ cb.success_total = cb.call_count
        /\ cb.state = CLOSED

AnalyzeStep(t) == AnalyzeText(t) \/ AnalyzeCalendarEvent(t)
SlotDenied == ~acquire(rl, now).allowed
Fallbacks == {"AnalysisResult(tasks=[])", "CalendarAnalysisResult(event_datetime=None)"}

\* C21. In analyze_text and analyze_calendar_event the limiter is asked before
\* the breaker: a call whose slot is denied leaves the breaker as it is
\* (call_count included), sends no request and is over; and the step in which
\* an idle task sends its first request is one that appended the slot to the
\* limiter, was counted by the breaker and found it not OPEN.
C21_LimiterBeforeBreaker ==
    [][ \A t \in Tasks :
            /\ (AnalyzeStep(t) /\ SlotDenied) =>
                    /\ cb' = cb
                    /\ sent'[t] = 0
                    /\ gpc'[t] = "idle"
            /\ (gpc[t] = "idle" /\ gpc'[t] = "http") =>
                    /\ ~SlotDenied
                    /\ rl'.requests = Append(purge(rl.requests, now, rl.time_window), now)
                    /\ cb'.call_count = cb.call_count + 1
                    /\ cb'.state # OPEN
                    /\ sent'[t] = 1 ]_vars

\* C21 witness: nine earlier calls, then one admitted call whose request is in
\* flight, then a calendar call that was denied its slot: the breaker counted
\* ten calls, not eleven, and the denied task sent nothing.
C21_Witness ==
    \E t, u \in Tasks :
        /\ logical = 2
        /\ gpc[u] = "http"
        /\ gpc[t] = "idle" /\ gres[t] = "CalendarAnalysisResult(event_datetime=None)"
        /\ sent[t] = 0
        /\ Len(rl.requests) = rl.max_requests
        /\ cb.call_count = rl.max_requests

\* C28. When the breaker's time-out fires the operation is cancelled: after the
\* step that raises CircuitBreakerTimeoutError the task's loop is no longer in
\* flight; a task that is not in flight sends no request; and only a step that
\* ends an in-flight loop records an outcome at the breaker.
C28_TimeoutCancels ==
    /\ [][ \A t \in Tasks :
            /\ BreakerTimeout(t) =>
                    (gpc'[t] = "idle" /\ gres'[t] = "ExternalServiceError")
            /\ (gpc[t] = "idle" /\ gpc'[t] = "idle") =>
                    sent'[t] \in {sent[t], 0} ]_vars
    /\ [][ Recorded(cb') # Recorded(cb) =>
                \E t \in Tasks : InFlight(t) /\ gpc'[t] = "idle" ]_vars

\* C28 witness: the only call was admitted at time 0 and failed at time 30, the
\* breaker's deadline, which only the time-out can do; its loop is gone.
C28_Witness ==
    \E t \in Tasks :
        /\ logical = 1
        /\ rl.requests = <<0>>
        /\ now = get_gemini_circuit_breaker.config.timeout
        /\ cb.last_failure_time = now /\ cb.failure_total = 1
        /\ gpc[t] = "idle" /\ gres[t] = "ExternalServiceError"
        /\ sent[t] >= 1

\* C30. When the limiter denies the slot, or the breaker is OPEN and its
\* cooldown has not elapsed, analyze_text and analyze_calendar_event return a
\* fallback result (no tasks, no event datetime) and raise nothing.
C30_DegradesGracefully ==
    [][ \A t \in Tasks :
            (AnalyzeStep(t) /\ (SlotDenied \/ CoolingDown)) =>
                (gpc'[t] = "idle" /\ gres'[t] \in Fallbacks) ]_vars

\* C31. The requests sent to the Gemini API within any rolling 60-second
\* interval, retries included, number at most 10. (All the requests of a
\* behaviour were sent within the last time_window seconds as long as the clock
\* reads less than time_window.)
C31_WireRate ==
    now < rl.time_window => wire <= rl.max_requests

\* The request of task t has been pending for the HTTP client's time-out.
ClientTimedOut(t) == gpc[t] = "http" /\ now >= timer[t] + HttpTimeout

\* C32. In the composed call path a time-out is retried: when the request of
\* an attempt has timed out at the HTTP client and attempts remain, the loop
\* goes on to its backoff sleep and next attempt; the call does not end there.
C32_TimeoutRetried ==
    [][ \A t \in Tasks :
            (ClientTimedOut(t) /\ attempt[t] + 1 < max_retries /\ gpc'[t] # gpc[t]) =>
                gpc'[t] = "sleep" ]_vars

\* ------------------------------------------------------------- retry loops
\* proxy/main.py:40-43
MAX_RETRIES == 5
BASE_DELAY == 1
TIMEOUT == 30

\* proxy/main.py:137: a 4xx other than 429 and 503 leaves the loop.
BreaksProxy(resp) ==
    /\ resp.kind = "response"
    /\ 400 <= resp.status /\ resp.status < 500
    /\ resp.status \notin {429, 503}

\* proxy/main.py:72: the delay computed at the top of attempt a
ProxyDelay(a) == BASE_DELAY * Pow2(a)

\* A loop running one iteration more than range(max_retries) has.
more_attempts_one_extra(a, retries) == a < retries

\* `for attempt in range(max_retries)`: after attempt a another one follows.
more_attempts(a, retries) == a + 1 < retries

\* Seconds an attempt takes: a client timeout comes after the client's timeout,
\* any other answer at once.
Elapsed(resp, timeout) == IF resp.kind = "TimeoutException" THEN timeout ELSE 0

\* gemini_service.py:253: the error raised when the loop is left without a
\* return; its message holds max_retries and str(last_exception).
GeminiServiceError(retries, last) ==
    [kind |-> "GeminiServiceError", attempts |-> retries, error |-> last]

\* proxy/main.py:156-161: the dict returned when the loop is left without a return
ProxyFailed(retries, last) ==
    [kind |-> "failed", attempts |-> retries, error |-> last]

\* gemini_service.py:219 and proxy/main.py:110-117: the value returned by a
\* successful attempt (the proxy reports attempt + 1).
Returned(a) == [kind |-> "success", attempts |-> a + 1, error |-> NoResponse]

InitRetry ==
    /\ now = 0
    /\ cb = CircuitBreaker("test_service", CircuitBreakerConfig(1, 1, 30, 1))
    /\ BreakerIdle
    /\ rl = RateLimiter(1, 1)
    /\ LimiterIdle
    /\ GeminiIdle
    /\ RetryIdle
    /\ RegistryIdle
    /\ LoopsIdle

\* A retry loop is entered: attempt 0 sends its request with no sleep before it.
\* The loops keep nothing from one call to the next, so a behaviour follows one call.
EnterLoop(client) ==
    /\ loop = NoLoop
    /\ loop' = [client |-> client, pc |-> "request", attempt |-> 0,
                last_exception |-> NoResponse]
    /\ tried' = <<>>
    /\ slept' = <<>>
    /\ ret' = NoReturn
    /\ UNCHANGED <<now, cbstate, rlstate, gemstate, regstate, loopstate>>

\* GeminiService._call_gemini_with_retry is called (lines 162-179).
CallGeminiWithRetry == EnterLoop("gemini")

\* forward_webhook_with_retry is called (proxy/main.py:49-88).
ForwardWebhookWithRetry == EnterLoop("proxy")

\* One attempt ends: a success returns; a failure is remembered in
\* last_exception and then either breaks the loop, starts the next attempt, or
\* was the last attempt, after which the terminal error is produced.
AttemptDone(client, retries, timeout, returns, breaks, terminal) ==
    /\ loop.client = client
    /\ loop.pc = "request"
    /\ \E resp \in Responses :
        /\ tried' = Append(tried, resp)
        /\ now' = now + Elapsed(resp, timeout)
        /\ IF IsSuccess(resp)
           THEN /\ loop' = [loop EXCEPT !.pc = "idle"]
                /\ ret' = returns
           ELSE IF ~breaks[resp] /\ more_attempts(loop.attempt, retries)
           THEN /\ loop' = [loop EXCEPT !.pc = "sleep", !.attempt = @ + 1,
                                        !.last_exception = resp]
                /\ ret' = ret
           ELSE /\ loop' = [loop EXCEPT !.pc = "idle", !.last_exception = resp]
                /\ ret' = terminal[resp]
    /\ UNCHANGED <<slept, cbstate, rlstate, gemstate, regstate, loopstate>>

\* gemini_service.py:178-253
GeminiAttempt ==
    AttemptDone("gemini", max_retries, HttpTimeout, Returned(loop.attempt),
                [resp \in Responses |-> Breaks(resp)],
                [resp \in Responses |-> GeminiServiceError(max_retries, resp)])

\* proxy/main.py:83-161
ProxyAttempt ==
    AttemptDone("proxy", MAX_RETRIES, TIMEOUT, Returned(loop.attempt),
                [resp \in Responses |-> BreaksProxy(resp)],
                [resp \in Responses |-> ProxyFailed(MAX_RETRIES, resp)])

\* The top of an attempt after the first (gemini_service.py:168-176,
\* proxy/main.py:72-81): sleep the delay computed for this attempt, then send.
BackoffSleep ==
    /\ loop.pc = "sleep"
    /\ LET delay == IF loop.client = "gemini"
                    THEN Delay(loop.attempt) ELSE ProxyDelay(loop.attempt) IN
        /\ slept' = Append(slept, delay)
        /\ now' = now + delay
    /\ loop' = [loop EXCEPT !.pc = "request"]
    /\ UNCHANGED <<tried, ret, cbstate, rlstate, gemstate, regstate, loopstate>>

NextRetry ==
    \/ CallGeminiWithRetry
    \/ ForwardWebhookWithRetry
    \/ GeminiAttempt
    \/ ProxyAttempt
    \/ BackoffSleep

SpecRetry == InitRetry /\ [][NextRetry]_vars

\* ----------------------------------------------------- retry loops: claims
LoopFinished == loop.client # "none" /\ loop.pc = "idle"
MaxAttempts == IF loop.client = "gemini" THEN max_retries ELSE MAX_RETRIES

\* A failure the retry policy retries: 429, a 5xx, a timeout, a transport error.
Retryable(resp) ==
    \/ resp.kind \in {"TimeoutException", "Exception"}
    \/ resp.kind = "response" /\ (resp.status = 429 \/ resp.status >= 500)

AllRetryable == \A i \in DOMAIN tried : Retryable(tried[i])

\* C11. When every attempt of a retry loop fails with a retryable failure, the
\* operation is invoked exactly max_attempts times (3 for Gemini, 5 for the
\* proxy) and the caller receives a terminal error that holds the last failure
\* observed and the attempt count.
C11_Exhausted ==
    /\ Len(tried) <= MaxAttempts
    /\ (LoopFinished /\ AllRetryable) =>
        /\ Len(tried) = MaxAttempts
        /\ Len(tried) = IF loop.client = "gemini" THEN 3 ELSE 5
        /\ ret.kind = IF loop.client = "gemini" THEN "GeminiServiceError" ELSE "failed"
        /\ ret.error = tried[Len(tried)]
        /\ ret.attempts = Len(tried)

\* C11 witness: the Gemini loop met HTTP 500 three times and raised its error.
C11_Witness ==
    /\ loop.client = "gemini" /\ loop.pc = "idle"
    /\ tried = <<Response(500), Response(500), Response(500)>>
    /\ ret = GeminiServiceError(3, Response(500))

ClientError(resp) ==
    resp.kind = "response" /\ resp.status \in 400..499 /\ resp.status # 429
RateOrUnavailable(resp) == resp.kind = "response" /\ resp.status \in {429, 503}

\* C12. In both loops a response with a status in 400..499 other than 429 is
\* the last attempt of its loop, which ends with the terminal error (a 404 on
\* the first attempt means exactly one attempt); a 429 or 503 response ends the
\* loop only when it was attempt number max_attempts.
C12_ClientErrorAborts ==
    \A i \in DOMAIN tried :
        /\ ClientError(tried[i]) =>
            /\ i = Len(tried)
            /\ LoopFinished
            /\ ret.kind \in {"GeminiServiceError", "failed"}
            /\ ret.error = tried[i]
        /\ (RateOrUnavailable(tried[i]) /\ i = Len(tried) /\ LoopFinished) =>
            Len(tried) = MaxAttempts

\* C12 witness: the proxy loop met 429 and 503 only and made all five attempts.
C12_Witness ==
    /\ loop.client = "proxy" /\ loop.pc = "idle"
    /\ tried = <<Response(429), Response(503), Response(429), Response(503), Response(429)>>
    /\ ret.kind = "failed"

BaseDelay == IF loop.client = "gemini" THEN base_delay ELSE BASE_DELAY

\* C13. Backoff growth: no wait precedes the initial attempt, and the wait
\* preceding retry i (i = 0 for the first retry) is base_delay * 2^i: 2 s, 4 s,
\* 8 s for Gemini and 1 s, 2 s, 4 s, 8 s, 16 s for the proxy.
C13_BackoffGrowth ==
    /\ Len(slept) <= Len(tried)
    /\ \A k \in DOMAIN slept : slept[k] = BaseDelay * Pow2(k - 1)

\* C33. The attempt count a retry loop reports with its terminal failure (the
\* number in the GeminiServiceError message, the proxy's "attempts" field) is
\* the number of attempts the loop made, also when it gave up on a 4xx.
C33_AttemptsReported ==
    (LoopFinished /\ ret.kind \in {"GeminiServiceError", "failed"}) =>
        ret.attempts = Len(tried)

\* ------------------------------------------------- circuit breaker manager
Names == {"gemini_api", "telegram_api"}

\* config=None: the absent configuration, which no CircuitBreakerConfig equals
None == CircuitBreakerConfig(0, 0, 0, 0)

\* CircuitBreakerConfig() with its defaults (circuit_breaker.py:30-34)
DefaultConfig == CircuitBreakerConfig(5, 60, 30, 3)

\* The configurations passed by get_gemini_circuit_breaker and
\* get_telegram_circuit_breaker, and no configuration.
PassedConfigs ==
    { None, CircuitBreakerConfig(3, 30, 30, 2), CircuitBreakerConfig(5, 60, 15, 3) }

\* get_breaker handing each caller a breaker of its own while the registry
\* keeps the first one.
get_breaker_private_copy(bs, h, name, config) ==
    LET c == IF config = None THEN DefaultConfig ELSE config
        h1 == Append(h, CircuitBreaker(name, c))
    IN  [ breakers |-> [n \in DOMAIN bs \cup {name} |->
                            IF n \in DOMAIN bs THEN bs[n] ELSE Len(h1)],
          heap |-> h1, instance |-> Len(h1) ]

\* get_breaker applying the configuration of a later lookup to the breaker it finds.
get_breaker_reconfigures(bs, h, name, config) ==
    IF name \notin DOMAIN bs
    THEN LET c == IF config = None THEN DefaultConfig ELSE config
             h1 == Append(h, CircuitBreaker(name, c))
         IN  [ breakers |-> [n \in DOMAIN bs \cup {name} |->
                                 IF n = name THEN Len(h1) ELSE bs[n]],
               heap |-> h1, instance |-> Len(h1) ]
    ELSE [ breakers |-> bs,
           heap |-> IF config = None THEN h
                    ELSE [h EXCEPT ![bs[name]].config = config],
           instance |-> bs[name] ]

\* CircuitBreakerManager.get_breaker (lines 222-238). bs is self.breakers, h
\* the instances constructed so far; an instance is its index in h.
get_breaker(bs, h, name, config) ==
    IF name \notin DOMAIN bs
    THEN LET c == IF config = None THEN DefaultConfig ELSE config
             h1 == Append(h, CircuitBreaker(name, c))
         IN  [ breakers |-> [n \in DOMAIN bs \cup {name} |->
                                 IF n = name THEN Len(h1) ELSE bs[n]],
               heap |-> h1, instance |-> Len(h1) ]
    ELSE [breakers |-> bs, heap |-> h, instance |-> bs[name]]

\* CircuitBreaker.get_stats (lines 194-211); success_rate is kept as the
\* fraction success_total / max(call_count, 1).
get_stats(b) ==
    [ name |-> b.name, state |-> b.state, call_count |-> b.call_count,
      success_total |-> b.success_total, failure_total |-> b.failure_total,
      failure_count |-> b.failure_count,
      success_rate |-> <<b.success_total, IF b.call_count > 1 THEN b.call_count ELSE 1>>,
      last_failure_time |-> b.last_failure_time,
      config |-> b.config ]

\* CircuitBreakerManager.get_all_stats (lines 240-242)
get_all_stats(bs, h) == [n \in DOMAIN bs |-> get_stats(h[bs[n]])]

InitReg ==
    /\ now = 0
    /\ cb = CircuitBreaker("test_service", CircuitBreakerConfig(1, 1, 30, 1))
    /\ BreakerIdle
    /\ rl = RateLimiter(1, 1)
    /\ LimiterIdle
    /\ GeminiIdle
    /\ RetryIdle
    /\ RegistryIdle
    /\ LoopsIdle

\* Task t calls get_breaker(name, config). The method has no await: it runs
\* to its end before any other task does anything.
GetBreaker(t, name, config) ==
    /\ LET r == get_breaker(breakers, heap, name, config) IN
        /\ breakers' = r.breakers
        /\ heap' = r.heap
        /\ ref' = [ref EXCEPT ![t] = r.instance]
    /\ lookedUp' = lookedUp \cup {name}
    /\ UNCHANGED <<now, stats, cbstate, rlstate, gemstate, retrystate, loopstate>>

\* Task t makes a call through the breaker it holds, and the operation ends
\* at once: with its result (success TRUE) or with a counted exception.
CallThrough(t, success) ==
    /\ ref[t] # 0
    /\ heap[ref[t]].call_count < MaxRegCalls
    /\ LET r == call_enter(heap[ref[t]], now) IN
        heap' = [heap EXCEPT ![ref[t]] =
                    IF r.rejected THEN r.breaker
                    ELSE IF success THEN on_success(r.breaker)
                    ELSE on_failure(r.breaker, now)]
    /\ UNCHANGED <<now, breakers, ref, stats, lookedUp, cbstate, rlstate, gemstate, retrystate, loopstate>>

\* The status endpoint calls get_all_stats (api/routes.py:569-575).
GetAllStats ==
    /\ stats' = get_all_stats(breakers, heap)
    /\ UNCHANGED <<now, breakers, heap, ref, lookedUp, cbstate, rlstate, gemstate, retrystate, loopstate>>

NextReg ==
    \/ \E t \in Tasks, name \in Names, config \in PassedConfigs : GetBreaker(t, name, config)
    \/ \E t \in Tasks, success \in BOOLEAN : CallThrough(t, success)
    \/ GetAllStats

SpecReg == InitReg /\ [][NextReg]_vars

\* ----------------------------------------- circuit breaker manager: claims
InstancesOf(name) == {i \in DOMAIN heap : heap[i].name = name}

\* C18. get_breaker creates a breaker only on the first lookup of a name, with
\* the configuration passed then (the default one if none); every later lookup
\* returns that same instance and changes neither its state and counters nor
\* its configuration, whatever configuration it passes; entries are never
\* removed or rebound; get_all_stats returns one entry for each name ever
\* looked up, and no other.
C18_CreatedOnce ==
    /\ [][ \A t \in Tasks, name \in Names, config \in PassedConfigs :
            GetBreaker(t, name, config) =>
                IF name \in DOMAIN breakers
                THEN /\ ref'[t] = breakers[name]
                     /\ heap' = heap
                     /\ breakers' = breakers
                ELSE /\ heap' = Append(heap, CircuitBreaker(name,
                                IF config = None THEN DefaultConfig ELSE config))
                     /\ ref'[t] = Len(heap')
                     /\ breakers'[name] = Len(heap')
                     /\ DOMAIN breakers' = DOMAIN breakers \cup {name} ]_vars
    /\ [][ \A n \in DOMAIN breakers :
            /\ n \in DOMAIN breakers'
            /\ breakers'[n] = breakers[n]
            /\ heap'[breakers[n]].config = heap[breakers[n]].config ]_vars
    /\ [](DOMAIN breakers = lookedUp)
    /\ [][ GetAllStats =>
            /\ DOMAIN stats' = lookedUp
            /\ \A n \in lookedUp :
                /\ stats'[n].name = n
                /\ stats'[n].call_count = heap[breakers[n]].call_count
                /\ stats'[n].config = heap[breakers[n]].config ]_vars

\* C18 witness: "gemini_api" was first looked up without a configuration, a
\* failure was recorded, both tasks hold that instance, and get_all_stats has
\* reported both names.
C18_Witness ==
    /\ lookedUp = Names
    /\ DOMAIN stats = Names
    /\ ref[1] = breakers["gemini_api"] /\ ref[2] = breakers["gemini_api"]
    /\ heap[breakers["gemini_api"]].config = DefaultConfig
    /\ heap[breakers["gemini_api"]].failure_total = 1
    /\ stats["gemini_api"].failure_total = 1
    /\ Len(heap) = 2

\* C19. The lazy construction is race-free: whatever the order in which tasks
\* look a name up for the first time, one CircuitBreaker at most is ever
\* constructed for a name, every task that looked the name up holds that one
\* instance, the one the registry holds, so what one task records through it
\* the others see.
C19_RaceFree ==
    /\ \A n \in Names : Cardinality(InstancesOf(n)) <= 1
    /\ \A n \in lookedUp : InstancesOf(n) = {breakers[n]}
    /\ \A t \in Tasks : ref[t] # 0 => ref[t] = breakers[heap[ref[t]].name]
    /\ \A t, u \in Tasks :
        (ref[t] # 0 /\ ref[u] # 0 /\ heap[ref[t]].name = heap[ref[u]].name) =>
            ref[t] = ref[u]

\* C19 witness: both tasks looked "telegram_api" up, with the configuration
\* of get_telegram_circuit_breaker; one instance exists, and it holds the
\* failure recorded through it.
C19_Witness ==
    /\ lookedUp = {"telegram_api"}
    /\ Len(heap) = 1
    /\ ref[1] = 1 /\ ref[2] = 1
    /\ heap[1].config = CircuitBreakerConfig(5, 60, 15, 3)
    /\ heap[1].call_count = 1
    /\ heap[1].failure_total = 1 /\ heap[1].failure_count = 1

\* ------------------------------------------------------ breaker statistics
\* A get_stats that tests the cooldown as call does and reports what it finds.
stats_query_probes(b, time) ==
    LET b1 == IF b.state = OPEN /\ time - b.last_failure_time >= b.config.recovery_timeout
              THEN [b EXCEPT !.state = HALF_OPEN, !.success_count = 0]
              ELSE b
    IN  [breaker |-> b1, snapshot |-> get_stats(b1)]

\* CircuitBreaker.get_stats (lines 194-211) builds its dict from the fields and
\* assigns none: the breaker after the query, and the dict returned.
stats_query(b, time) == [breaker |-> b, snapshot |-> get_stats(b)]

\* get_all_stats of a manager holding the breaker cb, or get_stats on cb: a
\* plain method, run in one step between the steps of the tasks' calls.
GetStats ==
    /\ LET q == stats_query(cb, now) IN
        /\ cb' = q.breaker
        /\ stats' = [n \in {cb.name} |-> q.snapshot]
    /\ UNCHANGED <<now, pc, outcome, streak, hoSucc, hist>>
    /\ UNCHANGED <<breakers, heap, ref, lookedUp>>
    /\ UNCHANGED <<rlstate, gemstate, retrystate, loopstate>>

Queried == DOMAIN stats # {}

\* The caller of get_stats has used the dict (api/routes, metrics): it runs
\* without awaiting from the query to here, so no task's step comes between.
StatsUsed ==
    /\ Queried
    /\ stats' = [n \in {} |-> 0]
    /\ UNCHANGED <<now, cbstate, rlstate, gemstate, retrystate, loopstate>>
    /\ UNCHANGED <<breakers, heap, ref, lookedUp>>

NextStats ==
    \/ ~Queried /\ Next
    \/ GetStats
    \/ StatsUsed

SpecStats == Init /\ [][NextStats]_vars

\* C22. get_stats and get_all_stats are read-only: the query leaves every field
\* of the breaker as it was (an OPEN breaker whose cooldown has elapsed stays
\* OPEN), the snapshot holds the values the fields have at the query, and a
\* breaker that was never called reports call_count 0 and both totals 0.
C22_StatsReadOnly ==
    /\ [][ GetStats =>
            /\ cb' = cb
            /\ Queried'
            /\ \A n \in DOMAIN stats' :
                /\ n = cb.name
                /\ stats'[n].state = cb.state
                /\ stats'[n].failure_count = cb.failure_count
                /\ stats'[n].last_failure_time = cb.last_failure_time
                /\ stats'[n].call_count = cb.call_count
                /\ stats'[n].success_total = cb.success_total
                /\ stats'[n].failure_total = cb.failure_total ]_vars
    /\ []( (Queried /\ hist.started = 0) =>
            \A n \in DOMAIN stats :
                /\ stats[n].call_count = 0
                /\ stats[n].success_total = 0
                /\ stats[n].failure_total = 0 )

\* C22 witness: a query just made on an OPEN breaker whose cooldown has elapsed:
\* the breaker is still OPEN, with the fields the snapshot shows.
C22_Witness ==
    /\ Queried
    /\ CooledDown
    /\ stats[cb.name] = get_stats(cb)
    /\ cb.call_count >= 2

\* --------------------------------------------------- synchronous operations
\* Task t calls the breaker with a plain function (lines 75-149). The call is
\* counted and, unless rejected, line 105-108 evaluates func(*args, **kwargs)
\* at once: the function runs and returns its value, which is handed to
\* asyncio.wait_for; that is no awaitable, and wait_for raises TypeError before
\* it suspends. TypeError is no TimeoutError; it is counted and re-raised when
\* it is an instance of config.expected_exception (the default, Exception) and
\* re-raised uncounted otherwise. Nothing is awaited: the call is one step.
CallSync(t) ==
    /\ pc[t] = "idle"
    /\ cb.call_count < MaxCalls
    /\ LET r == call_enter(cb, now) IN
        IF r.rejected
        THEN /\ cb' = r.breaker
             /\ \E d \in 0..MaxSkew :
                    /\ now + d <= MaxTime
                    /\ now' = now + d
                    /\ outcome' = [ kind |-> "CircuitBreakerOpenError", task |-> t,
                                    context |-> OpenErrorContext(r.breaker, now + d) ]
             /\ hist' = [hist EXCEPT !.started = @ + 1, !.rejected = @ + 1]
             /\ streak' = streak
        ELSE /\ now' = now
             /\ outcome' = [kind |-> "TypeError", task |-> t, context |-> NoContext]
             /\ \E expected \in BOOLEAN :
                    IF expected
                    THEN /\ cb' = on_failure(r.breaker, now)
                         /\ hist' = [hist EXCEPT !.started = @ + 1, !.failures = @ + 1,
                                          !.probing = ProbingAfter(t, FALSE),
                               !.opened_at = OpenedAfter,
                               !.late = LateAfter(t, "none")]
                         /\ streak' = streak + 1
                    ELSE /\ cb' = on_unexpected(r.breaker, now)
                         /\ hist' = [hist EXCEPT !.started = @ + 1, !.uncounted = @ + 1,
                                          !.probing = ProbingAfter(t, FALSE),
                               !.opened_at = OpenedAfter,
                               !.late = LateAfter(t, "none")]
                         /\ streak' = streak
    /\ hoSucc' = HoSuccAfter(FALSE)
    /\ UNCHANGED <<pc, rlstate, gemstate, retrystate, regstate, loopstate>>

NextSync ==
    \/ Next
    \/ \E t \in Tasks : CallSync(t)

SpecSync == Init /\ [][NextSync]_vars

\* C23. A call with a plain function that returns a value, and that the breaker
\* lets through, returns that value, records exactly one success and no
\* failure, and leaves a CLOSED breaker CLOSED.
C23_SyncOperation ==
    [][ \A t \in Tasks :
            (CallSync(t) /\ ~call_enter(cb, now).rejected) =>
                /\ outcome'.kind = "result" /\ outcome'.task = t
                /\ cb'.success_total = cb.success_total + 1
                /\ cb'.failure_total = cb.failure_total
                /\ (cb.state = CLOSED => cb'.state = CLOSED) ]_vars

\* Task t's operation is executed and succeeds in this step: an awaited
\* operation returns, or a plain function is let through, runs and returns.
OperationSucceeds(t) ==
    \/ Succeed(t)
    \/ CallSync(t) /\ ~call_enter(cb, now).rejected

\* The breaker as the operation of task t found it when it was let through
\* (for a plain function, after the lazy OPEN -> HALF_OPEN transition of the
\* same call).
FoundBy(t) ==
    IF pc[t] = "running" THEN cb ELSE call_enter(cb, now).breaker

\* C36. Recovery is always reachable: once every executed operation succeeds,
\* time advances and calls keep arriving, the breaker becomes CLOSED and stays
\* CLOSED. Stated on the steps that make it so: an operation that is executed
\* and succeeds never leaves the breaker OPEN; it keeps a CLOSED breaker CLOSED,
\* and it takes a HALF_OPEN breaker one success nearer to success_threshold or
\* closes it, so that neither OPEN (left by the first call after the cooldown)
\* nor HALF_OPEN (left after success_threshold successes) can last for ever.
C36_RecoveryReachable ==
    [][ \A t \in Tasks : OperationSucceeds(t) =>
            /\ (FoundBy(t).state = CLOSED => cb'.state = CLOSED)
            /\ (FoundBy(t).state = HALF_OPEN =>
                    \/ cb'.state = CLOSED
                    \/ /\ cb'.state = HALF_OPEN
                       /\ cb'.success_count = FoundBy(t).success_count + 1
                       /\ cb'.success_count < cb.config.success_threshold) ]_vars

\* ------------------------------------------------------------ wait_for_slot
\* The loop test of line 75 with the boundary included (<= for <).
keeps_waiting_inclusive(time, start_time, max_wait) == time - start_time <= max_wait

\* rate_limiter.py line 75: while time.time() - start_time < max_wait
keeps_waiting(time, start_time, max_wait) == time - start_time < max_wait

\* One pass of wait_for_slot's loop, from its test to the next suspension or
\* return (lines 75-87): acquire, then return True, or asyncio.sleep(1); or
\* return False when the test fails. taken counts the timestamps the pass left
\* in the limiter.
poll(w, r, time) ==
    IF keeps_waiting(time, w.start_time, w.max_wait)
    THEN LET a == acquire(r, time)
             kept == Len(a.limiter.requests) - Len(purge(r.requests, time, r.time_window))
             w1 == [w EXCEPT !.polls = Append(@, [time |-> time, admitted |-> a.allowed]),
                             !.taken = @ + kept]
         IN  [ limiter |-> a.limiter,
               wait |-> IF a.allowed
                        THEN [w1 EXCEPT !.pc = "done", !.ret = "True"]
                        ELSE [w1 EXCEPT !.pc = "sleep", !.wake = time + 1] ]
    ELSE [limiter |-> r, wait |-> [w EXCEPT !.pc = "done", !.ret = "False"]]

InitWait ==
    /\ now = 0
    /\ \E m \in 1..MaxRequests, w \in 1..MaxWindow : rl = RateLimiter(m, w)
    /\ LimiterIdle
    /\ cb = CircuitBreaker("test_service", CircuitBreakerConfig(1, 1, 30, 1))
    /\ BreakerIdle
    /\ GeminiIdle
    /\ RetryIdle
    /\ RegistryIdle
    /\ LoopsIdle

\* wait_for_slot(max_wait) is called: start_time is read (line 73) and the loop
\* runs to its first suspension. The clock covers the whole wait.
WaitForSlot(max_wait) ==
    /\ wait = NoWait
    /\ now + max_wait <= MaxTime
    /\ LET p == poll([NoWait EXCEPT !.pc = "test", !.start_time = now, !.max_wait = max_wait],
                     rl, now)
       IN  /\ wait' = p.wait
           /\ rl' = p.limiter
    /\ UNCHANGED <<now, rpc, local, result, admitted, everDenied, sched>>
    /\ UNCHANGED <<cbstate, gemstate, retrystate, regstate>>

\* asyncio.sleep(1) ends (line 80) and the loop makes its next pass.
WaitWake ==
    /\ wait.pc = "sleep"
    /\ now >= wait.wake
    /\ LET p == poll(wait, rl, now)
       IN  /\ wait' = p.wait
           /\ rl' = p.limiter
    /\ UNCHANGED <<now, rpc, local, result, admitted, everDenied, sched>>
    /\ UNCHANGED <<cbstate, gemstate, retrystate, regstate>>

\* Another caller of the same limiter calls acquire.
OtherAcquire ==
    /\ rl' = acquire(rl, now).limiter
    /\ UNCHANGED <<now, rpc, local, result, admitted, everDenied, loopstate>>
    /\ UNCHANGED <<cbstate, gemstate, retrystate, regstate>>

\* The clock advances; it does not pass the end of the sleep in progress.
TickWait ==
    /\ now < MaxTime
    /\ wait.pc = "sleep" => now < wait.wake
    /\ now' = now + 1
    /\ UNCHANGED <<cbstate, rlstate, gemstate, retrystate, regstate, loopstate>>

NextWait ==
    \/ TickWait
    \/ \E max_wait \in 0..MaxWait : WaitForSlot(max_wait)
    \/ WaitWake
    \/ OtherAcquire

\* Time passes, and the event loop resumes a task whose sleep has ended.
SpecWait == InitWait /\ [][NextWait]_vars /\ WF_vars(TickWait) /\ WF_vars(WaitWake)

AllDenied(polls) == \A i \in 1..Len(polls) : ~polls[i].admitted

\* C24. wait_for_slot(max_wait) terminates; its acquire attempts are made one
\* second apart, starting at the call; while it has not returned, none of them
\* was admitted and it holds no slot; it returns True at the first attempt that
\* is admitted, holding exactly that one slot; and it returns False only when
\* max_wait seconds have elapsed, every attempt was denied and it holds no slot.
C24_WaitForSlot ==
    /\ [](\A i \in 1..Len(wait.polls) : wait.polls[i].time = wait.start_time + (i - 1))
    /\ [](wait.ret = "none" => (AllDenied(wait.polls) /\ wait.taken = 0))
    /\ [](wait.ret = "True" =>
            /\ wait.pc = "done"
            /\ wait.taken = 1
            /\ wait.polls # <<>>
            /\ wait.polls[Len(wait.polls)].admitted
            /\ AllDenied(SubSeq(wait.polls, 1, Len(wait.polls) - 1)))
    /\ [](wait.ret = "False" =>
            /\ wait.pc = "done"
            /\ wait.taken = 0
            /\ AllDenied(wait.polls)
            /\ Len(wait.polls) = wait.max_wait
            /\ now - wait.start_time >= wait.max_wait)
    /\ ((wait.pc = "sleep") ~> (wait.pc = "done"))

\* C24 witness: the call was denied twice and admitted at its third attempt.
C24_Witness ==
    /\ wait.ret = "True"
    /\ Len(wait.polls) = 3
    /\ wait.taken = 1

\* ------------------------------------------------- rate limiter: retention
\* RateLimiter.get_status (lines 89-102): reads the clock and counts the
\* retained requests less than time_window old; it removes none.
get_status(r, time) ==
    LET recent == Cardinality({i \in 1..Len(r.requests) : r.requests[i] > time - r.time_window})
        Min(q) == CHOOSE x \in {q[i] : i \in 1..Len(q)} : \A i \in 1..Len(q) : x <= q[i]
    IN  [ current_requests |-> recent,
          max_requests |-> r.max_requests,
          time_window |-> r.time_window,
          available_slots |-> IF r.max_requests - recent > 0 THEN r.max_requests - recent ELSE 0,
          next_reset |-> IF r.requests # <<>> THEN Min(r.requests) + r.time_window ELSE time ]

\* C25 as claimed. At every instant the retained timestamps number at most
\* max_requests and each lies within time_window seconds of the current time.
C25_RetainedWithinWindow ==
    /\ Len(rl.requests) <= rl.max_requests
    /\ \A i \in 1..Len(rl.requests) : rl.requests[i] >= now - rl.time_window

\* C25 as it holds. At every instant the retained timestamps number at most
\* max_requests; when an acquire has purged, each retained timestamp is less
\* than time_window older than the time that acquire read, and the acquire
\* leaves them so; and get_status reports as current_requests the number of
\* acquires admitted less than time_window ago, whatever older timestamps are
\* still retained.
C25_RetainedAfterPurge ==
    /\ [](Len(rl.requests) <= rl.max_requests)
    /\ [](\A t \in Tasks : rpc[t] = "purged" =>
            \A i \in 1..Len(rl.requests) : rl.requests[i] > local[t].now - rl.time_window)
    /\ [][ \A t \in Tasks : AcquireDecide(t) =>
            \A i \in 1..Len(rl'.requests) : rl'.requests[i] > local[t].now - rl.time_window ]_vars
    /\ [](get_status(rl, now).current_requests
            = Cardinality(AdmittedIn(now - rl.time_window + 1)))

\* C25 witness: no acquire is running, and a timestamp is retained that is
\* older than time_window; get_status does not count it.
C25_Witness ==
    /\ \A t \in Tasks : rpc[t] = "idle"
    /\ rl.requests # <<>>
    /\ Head(rl.requests) < now - rl.time_window
    /\ get_status(rl, now).current_requests < Len(rl.requests)
    /\ get_status(rl, now).next_reset < now

\* ------------------------------------- circuit breaker: episodes and streaks
LargerThreshold ==
    IF cb.config.failure_threshold > cb.config.success_threshold
    THEN cb.config.failure_threshold
    ELSE cb.config.success_threshold

\* C26. While HALF_OPEN only a limited number of trial calls are let through:
\* the operations admitted in one HALF_OPEN episode and in flight number at
\* most a threshold of the configuration.
C26_HalfOpenProbes ==
    cb.state = HALF_OPEN => Cardinality(hist.probing) <= LargerThreshold

LifetimeKept ==
    /\ cb'.call_count >= cb.call_count
    /\ cb'.success_total >= cb.success_total
    /\ cb'.failure_total >= cb.failure_total

\* C27 as claimed. Right after every change of state failure_count and
\* success_count are both 0, and the lifetime counters never decrease.
C27_StreaksReset ==
    [][ /\ cb'.state # cb.state => (cb'.failure_count = 0 /\ cb'.success_count = 0)
        /\ LifetimeKept ]_vars

\* C27 as it holds. success_count is set to 0 at OPEN->HALF_OPEN, where
\* failure_count is left as it is; failure_count is set to 0 at
\* HALF_OPEN->CLOSED, where success_count is the success_threshold just
\* reached; at CLOSED->OPEN and HALF_OPEN->OPEN failure_count is the streak
\* with the failure added (at least failure_threshold when leaving CLOSED) and
\* success_count is left as it is; the lifetime counters never decrease.
C27_StreaksAtTransitions ==
    [][ /\ (cb.state = OPEN /\ cb'.state = HALF_OPEN) =>
                (cb'.success_count = 0 /\ cb'.failure_count = cb.failure_count)
        /\ (cb.state = HALF_OPEN /\ cb'.state = CLOSED) =>
                /\ cb'.failure_count = 0
                /\ cb'.success_count = cb.success_count + 1
                /\ cb'.success_count = cb.config.success_threshold
        /\ (cb.state = CLOSED /\ cb'.state = OPEN) =>
                /\ cb'.failure_count = cb.failure_count + 1
                /\ cb'.failure_count >= cb.config.failure_threshold
                /\ cb'.success_count = cb.success_count
        /\ (cb.state = HALF_OPEN /\ cb'.state = OPEN) =>
                /\ cb'.failure_count = cb.failure_count + 1
                /\ cb'.success_count = cb.success_count
        /\ LifetimeKept ]_vars

\* C27 witness: the breaker opened, closed again after its probes and has just
\* opened a second time: both streak counters are positive.
C27_Witness ==
    /\ cb.state = OPEN
    /\ outcome.kind \in {"expected_exception", "CircuitBreakerTimeoutError"}
    /\ cb.failure_count = cb.config.failure_threshold
    /\ cb.success_count = cb.config.success_threshold
    /\ cb.failure_total = 2 * cb.config.failure_threshold

\* The cooldown counted from the step that opened the breaker is over.
CooledSinceOpening ==
    cb.state = OPEN /\ now >= hist.opened_at + cb.config.recovery_timeout

\* C34 as stated. Once the breaker has become OPEN at time T, no call made at a
\* time >= T + recovery_timeout is rejected with CircuitBreakerOpenError: the
\* outcomes of calls that were in flight when it opened do not postpone the
\* cooldown.
C34_CooldownFromOpening ==
    [][ \A t \in Tasks : (Call(t) /\ CooledSinceOpening) =>
            (pc'[t] = "running" /\ hist'.rejected = hist.rejected) ]_vars

\* C34, amended. The cooldown of an OPEN breaker runs from its most recent
\* counted failure, which is never earlier than the failure that opened it: a
\* call made at a time >= last_failure_time + recovery_timeout is not rejected,
\* and the failure of a call that was in flight when the breaker opened leaves
\* it OPEN and restarts the cooldown at the time of that failure, so that a call
\* made after T + recovery_timeout but before the restarted cooldown ends is
\* rejected.
C34_CooldownFromLastFailure ==
    /\ [](cb.state = OPEN =>
            (hist.opened_at <= cb.last_failure_time /\ cb.last_failure_time <= now))
    /\ [][ /\ \A t \in Tasks :
                (Call(t) /\ cb.state = OPEN
                         /\ now >= cb.last_failure_time + cb.config.recovery_timeout) =>
                    (pc'[t] = "running" /\ hist'.rejected = hist.rejected)
           /\ (FailureStep /\ cb.state = OPEN) =>
                /\ cb'.state = OPEN
                /\ cb'.last_failure_time = now
                /\ hist'.opened_at = hist.opened_at
           /\ \A t \in Tasks :
                (Call(t) /\ CooledSinceOpening
                         /\ now < cb.last_failure_time + cb.config.recovery_timeout) =>
                    (pc'[t] = "idle" /\ hist'.rejected = hist.rejected + 1) ]_vars

\* C34 witness: a call was rejected at a time when the cooldown counted from
\* the opening of the breaker was over, because a call in flight at the opening
\* failed later.
C34_Witness ==
    /\ cb.state = OPEN
    /\ outcome.kind = "CircuitBreakerOpenError"
    /\ hist.opened_at < cb.last_failure_time
    /\ cb.last_failure_time - outcome.context.time_until_retry - MaxSkew >= hist.opened_at

\* Task t awaits an operation that was admitted before the current HALF_OPEN
\* episode began (while CLOSED, or in an earlier HALF_OPEN episode).
AdmittedEarlier(t) ==
    cb.state = HALF_OPEN /\ pc[t] = "running" /\ t \notin hist.probing

\* C35 as stated. Only operations admitted in the current HALF_OPEN episode
\* advance the half-open success streak: the success of an operation admitted
\* earlier that ends while the breaker is HALF_OPEN leaves success_count and the
\* state as they are, and the failure of such an operation does not reopen the
\* breaker.
C35_OnlyCurrentProbes ==
    [][ \A t \in Tasks :
            /\ (AdmittedEarlier(t) /\ Succeed(t)) =>
                    (cb'.success_count = cb.success_count /\ cb'.state = HALF_OPEN)
            /\ (AdmittedEarlier(t) /\ (Fail(t) \/ Timeout(t))) =>
                    cb'.state = HALF_OPEN ]_vars

\* C35, amended. Every operation that ends while the breaker is HALF_OPEN is
\* recorded as a probe, whenever it was admitted: the success of an operation
\* admitted before the current HALF_OPEN episode increments success_count and
\* closes the breaker when success_threshold is reached, and the counted failure
\* of such an operation reopens the breaker.
C35_EveryCompletionCounts ==
    [][ \A t \in Tasks :
            /\ (AdmittedEarlier(t) /\ Succeed(t)) =>
                    /\ cb'.success_count = cb.success_count + 1
                    /\ cb'.state = IF cb.success_count + 1 >= cb.config.success_threshold
                                   THEN CLOSED ELSE HALF_OPEN
            /\ (AdmittedEarlier(t) /\ (Fail(t) \/ Timeout(t))) =>
                    (cb'.state = OPEN /\ cb'.last_failure_time = now) ]_vars

\* C35 witness: the success of an operation admitted before the current
\* HALF_OPEN episode closed the breaker while a probe of the episode was still
\* awaited.
C35_Witness ==
    /\ hist.late = "success"
    /\ cb.state = CLOSED
    /\ cb.success_count = cb.config.success_threshold
    /\ \E t \in Tasks : pc[t] = "running"

\* ----------------------------------------------------- background schedulers
\* backup_service.py:276, summary_service.py:337, gmail_watcher_service.py:424:
\* the sleep of each loop's except clause
BackupFallback == 3600
SummaryFallback == 3600
RenewalFallback == 300
\* gmail_watcher_service.py:32, renewal_interval = timedelta(hours=2), in seconds
RenewalInterval == 7200
\* backup_service.py:247, summary_service.py:288: timedelta(days=1), in seconds
Day == 86400

FallbackDelay(s) ==
    CASE s = "run_daily_backup_scheduler" -> BackupFallback
      [] s = "run_daily_scheduler" -> SummaryFallback
      [] s = "run_renewal_scheduler" -> RenewalFallback

\* The sleep at the top of an iteration: the daily loops sleep until the next
\* 02:00 or 13:00 UTC, between a second and a day away depending on the time
\* of day; the renewal loop sleeps renewal_interval.
ScheduledSleeps(s) ==
    IF s = "run_renewal_scheduler" THEN {RenewalInterval} ELSE {1, Day}

\* What the iteration awaits after its sleep: create_daily_backup (line 262)
\* and renew_all_channels (line 410), which raise on failure. The summary loop
\* sets chat_ids = [] (line 304), so its for loop over send_daily_summary is
\* never entered and the iteration ends with a log line.
HasWork(s) == s # "run_daily_scheduler"

\* A loop whose except clause lets the exception through.
on_exception_propagates(s) == [pc |-> "terminated", delay |-> 0]

\* except Exception: logger.error, then asyncio.sleep of the fallback delay;
\* the while True loop goes on after it.
on_exception(s) == [pc |-> "fallback_sleep", delay |-> FallbackDelay(s)]

InitSched ==
    /\ now = 0
    /\ cb = CircuitBreaker("test_service", CircuitBreakerConfig(1, 1, 30, 1))
    /\ BreakerIdle
    /\ rl = RateLimiter(1, 1)
    /\ LimiterIdle
    /\ GeminiIdle
    /\ RetryIdle
    /\ RegistryIdle
    /\ LoopsIdle

\* The top of an iteration: the time is read and the loop sleeps.
NextIteration(s, how) ==
    \E d \in ScheduledSleeps(s) :
        sched' = [sched EXCEPT ![s].pc = "sleep", ![s].delay = d, ![s].last = how]

SchedFrame == UNCHANGED <<now, wait, cbstate, rlstate, gemstate, retrystate, regstate>>

\* asyncio.create_task(run_..._scheduler()) and the loop's first pass to its sleep
StartScheduler(s) ==
    /\ sched[s].pc = "none"
    /\ NextIteration(s, "none")
    /\ SchedFrame

\* The scheduled sleep ends: the work is awaited, or, with nothing to do, the
\* iteration ends and the next begins.
ScheduledSleepDone(s) ==
    /\ sched[s].pc = "sleep"
    /\ IF HasWork(s)
       THEN sched' = [sched EXCEPT ![s].pc = "work", ![s].delay = 0]
       ELSE NextIteration(s, "completed")
    /\ SchedFrame

\* The work returns: its result is logged and the next iteration begins.
WorkReturns(s) ==
    /\ sched[s].pc = "work"
    /\ NextIteration(s, "completed")
    /\ SchedFrame

\* The work raises an Exception (BackupServiceError, GmailWatcherServiceError).
WorkRaises(s) ==
    /\ sched[s].pc = "work"
    /\ sched[s].failures < MaxFailures
    /\ LET e == on_exception(s) IN
        sched' = [sched EXCEPT ![s].pc = e.pc, ![s].delay = e.delay,
                               ![s].failures = @ + 1, ![s].last = "failed"]
    /\ SchedFrame

\* The fallback sleep ends and the loop begins its next iteration.
FallbackSleepDone(s) ==
    /\ sched[s].pc = "fallback_sleep"
    /\ NextIteration(s, sched[s].last)
    /\ SchedFrame

NextSched ==
    \/ \E s \in Schedulers : StartScheduler(s)
    \/ \E s \in Schedulers : ScheduledSleepDone(s)
    \/ \E s \in Schedulers : WorkReturns(s)
    \/ \E s \in Schedulers : WorkRaises(s)
    \/ \E s \in Schedulers : FallbackSleepDone(s)

\* The event loop resumes a task whose sleep has ended.
SpecSched ==
    /\ InitSched
    /\ [][NextSched]_vars
    /\ \A s \in Schedulers :
        WF_vars(ScheduledSleepDone(s)) /\ WF_vars(FallbackSleepDone(s))

ClaimedFallback(s) == IF s = "run_renewal_scheduler" THEN 300 ELSE 3600

\* C29. An exception raised by the work of an iteration never ends a scheduler
\* loop: the step that raises it leaves the loop in its fallback sleep (3600 s
\* for the backup and summary loops, 300 s for the renewal loop), the fallback
\* sleep is followed by the start of another iteration, no loop ever
\* terminates, and after a failed iteration the work is eventually attempted
\* again.
C29_SchedulerSurvives ==
    /\ [][ \A s \in Schedulers :
            /\ WorkRaises(s) =>
                    /\ sched'[s].pc = "fallback_sleep"
                    /\ sched'[s].delay = ClaimedFallback(s)
            /\ (sched[s].pc = "fallback_sleep" /\ sched'[s] # sched[s]) =>
                    sched'[s].pc = "sleep" ]_vars
    /\ [](\A s \in Schedulers : sched[s].pc # "terminated")
    /\ \A s \in Schedulers :
            (sched[s].pc = "fallback_sleep") ~> (sched[s].pc = "work")

\* C29 witness: the backup loop's work has raised twice and is being attempted
\* a third time, while the renewal loop is in its fallback sleep.
C29_Witness ==
    /\ sched["run_daily_backup_scheduler"].pc = "work"
    /\ sched["run_daily_backup_scheduler"].failures = 2
    /\ sched["run_daily_backup_scheduler"].last = "failed"
    /\ sched["run_renewal_scheduler"].pc = "fallback_sleep"
    /\ sched["run_renewal_scheduler"].delay = 300

====
